---- MODULE Spec2Model ----
(***************************************************************************)
(* Decision-fusion engine of the issue insight system:                     *)
(*   modules/rule_engine.py      the four scorers and CompleteRuleEngine   *)
(*   modules/priority_engine.py  PriorityIntelligenceEngine                *)
(*                                                                         *)
(* Numbers.  Every score is a Python float that is a short decimal.  The   *)
(* model keeps a score as the integer number of millionths (ONE = 1.0) and *)
(* a weight or multiplier as the integer the comments name, so that sums,  *)
(* products and threshold comparisons are exact.                           *)
(*                                                                         *)
(* Text.  A string is the tuple of its characters, so that lower(),        *)
(* split() and the substring test `kw in text` are computed, not assumed.  *)
(***************************************************************************)
EXTENDS Integers, Sequences, FiniteSets, TLC

VARIABLES text, timestamp, category, historical_issues,
          rule_result, ml_result, department_load, final_result,
          issues, params, result

vars == << text, timestamp, category, historical_issues,
           rule_result, ml_result, department_load, final_result,
           issues, params, result >>

\* 1.0 in millionths
ONE == 1000 * 1000

\* Python None, and the value of a result variable before its call
None == "<None>"

\* A result variable holds the returned dict, or one of these two
NotCalled == [ state |-> "not called" ]
Raised(exception) == [ state |-> "raised", exception |-> exception ]
Returned(r) == "state" \notin DOMAIN r

Min(a, b) == IF a <= b THEN a ELSE b
Max(a, b) == IF a >= b THEN a ELSE b

\* dict.get(key, default)
Get(d, key, default) == IF key \in DOMAIN d THEN d[key] ELSE default

\* {**a, **b}: the keys of both, b's value where both have the key
DictMerge(a, b) == [k \in DOMAIN a \cup DOMAIN b |-> IF k \in DOMAIN b THEN b[k] ELSE a[k]]

\* seq[:n]
Prefix(seq, n) == SubSeq(seq, 1, Min(n, Len(seq)))

\* [x for x in seq if x in keep], order kept
RECURSIVE SelectIn(_, _)
SelectIn(seq, keep) ==
    IF seq = << >> THEN << >>
    ELSE (IF Head(seq) \in keep THEN << Head(seq) >> ELSE << >>) \o SelectIn(Tail(seq), keep)

-----------------------------------------------------------------------------
\* Strings

UpperCase == << "A","B","C","D","E","F","G","H","I","J","K","L","M",
                "N","O","P","Q","R","S","T","U","V","W","X","Y","Z" >>
LowerCase == << "a","b","c","d","e","f","g","h","i","j","k","l","m",
                "n","o","p","q","r","s","t","u","v","w","x","y","z" >>
Whitespace == { " ", "\t", "\n" }

\* the lower-case form of one character
LowerChar(c) ==
    IF \E k \in 1..26 : UpperCase[k] = c
    THEN LowerCase[CHOOSE k \in 1..26 : UpperCase[k] = c]
    ELSE c

\* str.lower()
RECURSIVE Lower(_)
Lower(s) == IF s = << >> THEN << >> ELSE << LowerChar(Head(s)) >> \o Lower(Tail(s))

\* kw in s  (substring test)
Contains(kw, s) ==
    \E i \in 1..(Len(s) - Len(kw) + 1) : SubSeq(s, i, i + Len(kw) - 1) = kw

\* the words of s after the word being read, which starts with the characters in word
RECURSIVE WordsFrom(_, _)
WordsFrom(s, word) ==
    IF s = << >> THEN (IF word = << >> THEN {} ELSE { word })
    ELSE IF Head(s) \in Whitespace
         THEN (IF word = << >> THEN {} ELSE { word }) \cup WordsFrom(Tail(s), << >>)
         ELSE WordsFrom(Tail(s), Append(word, Head(s)))

\* set(s.split()): the maximal runs of non-whitespace characters
WordSet(s) == WordsFrom(s, << >>)

\* " ".join(words)
RECURSIVE Join(_)
Join(words) ==
    IF words = << >> THEN << >>
    ELSE IF Len(words) = 1 THEN words[1]
    ELSE words[1] \o << " " >> \o Join(Tail(words))

-----------------------------------------------------------------------------
\* config.py

URGENCY_KEYWORDS ==
    [ critical |->
        << <<"u","r","g","e","n","t">>,
           <<"e","m","e","r","g","e","n","c","y">>,
           <<"c","r","i","t","i","c","a","l">>,
           <<"a","s","a","p">>,
           <<"i","m","m","e","d","i","a","t","e","l","y">>,
           <<"r","i","g","h","t"," ","n","o","w">>,
           <<"c","a","n","'","t"," ","a","c","c","e","s","s">>,
           <<"c","o","m","p","l","e","t","e","l","y"," ","d","o","w","n">>,
           <<"n","o","t"," ","w","o","r","k","i","n","g">> >>,
      time_sensitive |->
        << <<"e","x","a","m">>,
           <<"d","e","a","d","l","i","n","e">>,
           <<"t","o","d","a","y">>,
           <<"a","s","s","i","g","n","m","e","n","t"," ","d","u","e">>,
           <<"t","e","s","t">>,
           <<"q","u","i","z">>,
           <<"p","r","e","s","e","n","t","a","t","i","o","n">>,
           <<"m","e","e","t","i","n","g">> >>,
      impact |->
        << <<"a","l","l"," ","s","t","u","d","e","n","t","s">>,
           <<"e","n","t","i","r","e">>,
           <<"e","v","e","r","y","o","n","e">>,
           <<"m","u","l","t","i","p","l","e">>,
           <<"d","e","p","a","r","t","m","e","n","t">>,
           <<"c","a","m","p","u","s","-","w","i","d","e">>,
           <<"b","u","i","l","d","i","n","g">> >> ]

EXAM_SEASON_MONTHS == { 4, 5, 11, 12 }

\* a plausible slip: the morning begins at 9
PEAK_HOURS_morning_from_9 == [ morning |-> << 9, 12 >>, afternoon |-> << 12, 17 >>,
                               evening |-> << 17, 21 >>, night |-> << 21, 24 >> ]

PEAK_HOURS == [ morning |-> << 8, 12 >>, afternoon |-> << 12, 17 >>,
                evening |-> << 17, 21 >>, night |-> << 21, 24 >> ]

\* weights in hundredths
PRIORITY_WEIGHTS == [ urgency_score |-> 35, impact_score |-> 30,
                      recurrence_score |-> 20, time_sensitivity |-> 15 ]

-----------------------------------------------------------------------------
\* KeywordRuleEngine.detect_urgency_signals

\* [kw for kw in keywords if kw in text_lower]
Matched(keywords, text_lower) ==
    SelectIn(keywords, { kw \in { keywords[i] : i \in 1..Len(keywords) } : Contains(kw, text_lower) })

detect_urgency_signals(txt) ==
    LET text_lower == Lower(txt)
        matched_critical == Matched(URGENCY_KEYWORDS.critical, text_lower)
        matched_time_sensitive == Matched(URGENCY_KEYWORDS.time_sensitive, text_lower)
        matched_impact == Matched(URGENCY_KEYWORDS.impact, text_lower)
        critical_score == Min(Len(matched_critical) * 400000, 600000)
        time_score == Min(Len(matched_time_sensitive) * 300000, 300000)
        impact_score == Min(Len(matched_impact) * 200000, 200000)
        urgency_score == critical_score + time_score + impact_score
        urgency_level == IF urgency_score >= 600000 THEN "HIGH"
                         ELSE IF urgency_score >= 300000 THEN "MEDIUM"
                         ELSE "LOW"
        explanation_parts ==
            (IF matched_critical # << >>
             THEN << << "Critical keywords", Prefix(matched_critical, 3) >> >> ELSE << >>)
            \o (IF matched_time_sensitive # << >>
                THEN << << "Time-sensitive", Prefix(matched_time_sensitive, 3) >> >> ELSE << >>)
            \o (IF matched_impact # << >>
                THEN << << "High impact", Prefix(matched_impact, 3) >> >> ELSE << >>)
    IN  [ urgency_score |-> urgency_score,
          urgency_level |-> urgency_level,
          matched_keywords |-> [ critical |-> matched_critical,
                                 time_sensitive |-> matched_time_sensitive,
                                 impact |-> matched_impact ],
          explanation |-> IF explanation_parts # << >> THEN explanation_parts
                          ELSE << "No urgency signals detected" >> ]

-----------------------------------------------------------------------------
\* ImpactAssessmentEngine.assess_impact

high ==
    << <<"a","l","l">>,
       <<"e","n","t","i","r","e">>,
       <<"e","v","e","r","y","o","n","e">>,
       <<"w","h","o","l","e">>,
       <<"c","a","m","p","u","s">>,
       <<"b","u","i","l","d","i","n","g">>,
       <<"d","e","p","a","r","t","m","e","n","t">>,
       <<"m","u","l","t","i","p","l","e">>,
       <<"m","a","n","y">>,
       <<"w","i","d","e","s","p","r","e","a","d">>,
       <<"c","a","m","p","u","s","-","w","i","d","e">>,
       <<"s","y","s","t","e","m","-","w","i","d","e">> >>
medium ==
    << <<"s","e","v","e","r","a","l">>,
       <<"f","e","w">>,
       <<"s","o","m","e">>,
       <<"g","r","o","u","p">>,
       <<"c","l","a","s","s">>,
       <<"f","l","o","o","r">>,
       <<"r","o","o","m">>,
       <<"l","a","b">> >>
low ==
    << <<"m","y">>,
       <<"i">>,
       <<"m","e">>,
       <<"p","e","r","s","o","n","a","l">>,
       <<"o","w","n">> >>

category_impact == [ c \in { "Network", "Facilities", "IT Support", "Academic", "Admin" } |->
                        CASE c = "Network" -> 800000
                          [] c = "Facilities" -> 600000
                          [] c = "IT Support" -> 400000
                          [] c = "Academic" -> 500000
                          [] c = "Admin" -> 300000 ]

\* sum(1 for kw in keywords if kw in text_lower)
CountIn(keywords, text_lower) ==
    Cardinality({ i \in 1..Len(keywords) : Contains(keywords[i], text_lower) })

\* a plausible slip: the tiers are tested lowest first
assess_impact_low_first(txt, cat) ==
    LET text_lower == Lower(txt)
        high_count == CountIn(high, text_lower)
        medium_count == CountIn(medium, text_lower)
        low_count == CountIn(low, text_lower)
        base_impact == Get(category_impact, cat, 500000)
    IN  IF low_count > 0 THEN
            [ impact_score |-> Max(base_impact - 300000, 100000),
              impact_level |-> "LOW",
              estimated_users_affected |-> "1-5",
              explanation |-> "Individual issue: single user affected" ]
        ELSE IF medium_count > 0 THEN
            [ impact_score |-> base_impact,
              impact_level |-> "MEDIUM",
              estimated_users_affected |-> "10-50",
              explanation |-> "Medium-impact scope: affects a group" ]
        ELSE IF high_count > 0 THEN
            [ impact_score |-> Min(base_impact + 400000, ONE),
              impact_level |-> "HIGH",
              estimated_users_affected |-> "50-500+",
              explanation |-> "High-impact keywords detected: affects multiple users" ]
        ELSE
            [ impact_score |-> base_impact,
              impact_level |-> "MEDIUM",
              estimated_users_affected |-> "Unknown",
              explanation |-> "Estimated based on category" ]

assess_impact(txt, cat) ==
    LET text_lower == Lower(txt)
        high_count == CountIn(high, text_lower)
        medium_count == CountIn(medium, text_lower)
        low_count == CountIn(low, text_lower)
        base_impact == Get(category_impact, cat, 500000)
    IN  IF high_count > 0 THEN
            [ impact_score |-> Min(base_impact + 400000, ONE),
              impact_level |-> "HIGH",
              estimated_users_affected |-> "50-500+",
              explanation |-> "High-impact keywords detected: affects multiple users" ]
        ELSE IF medium_count > 0 THEN
            [ impact_score |-> base_impact,
              impact_level |-> "MEDIUM",
              estimated_users_affected |-> "10-50",
              explanation |-> "Medium-impact scope: affects a group" ]
        ELSE IF low_count > 0 THEN
            [ impact_score |-> Max(base_impact - 300000, 100000),
              impact_level |-> "LOW",
              estimated_users_affected |-> "1-5",
              explanation |-> "Individual issue: single user affected" ]
        ELSE
            [ impact_score |-> base_impact,
              impact_level |-> "MEDIUM",
              estimated_users_affected |-> "Unknown",
              explanation |-> "Estimated based on category" ]

-----------------------------------------------------------------------------
\* TimeBasedRuleEngine.analyze_temporal_context

\* A timestamp argument is None, or a string of the form "%Y-%m-%d %H:%M:%S",
\* kept as the record of the six numbers it spells (which may be out of range).
NoTimestamp == [ form |-> "None" ]
Formatted(y, mo, d, h, mi, sec) ==
    [ form |-> "%Y-%m-%d %H:%M:%S", year |-> y, month |-> mo, day |-> d,
      hour |-> h, minute |-> mi, second |-> sec ]

IsLeap(y) == y % 4 = 0 /\ (y % 100 # 0 \/ y % 400 = 0)

DaysInMonth(y, m) ==
    IF m = 2 THEN (IF IsLeap(y) THEN 29 ELSE 28)
    ELSE IF m \in { 4, 6, 9, 11 } THEN 30 ELSE 31

\* datetime.strptime(ts, "%Y-%m-%d %H:%M:%S") succeeds
Parses(ts) ==
    /\ ts.form = "%Y-%m-%d %H:%M:%S"
    /\ ts.year \in 1..9999
    /\ ts.month \in 1..12
    /\ ts.day \in 1..DaysInMonth(ts.year, ts.month)
    /\ ts.hour \in 0..23
    /\ ts.minute \in 0..59
    /\ ts.second \in 0..59

RECURSIVE DaysBeforeMonth(_, _)
DaysBeforeMonth(y, m) ==
    IF m = 1 THEN 0 ELSE DaysBeforeMonth(y, m - 1) + DaysInMonth(y, m - 1)

\* dt.weekday(): Monday is 0, Sunday is 6
Weekday(dt) ==
    LET y1 == dt.year - 1
        ordinal == y1 * 365 + (y1 \div 4) - (y1 \div 100) + (y1 \div 400)
                   + DaysBeforeMonth(dt.year, dt.month) + dt.day
    IN  (ordinal + 6) % 7

\* now is the value datetime.now() returns during the call; the bare except
\* replaces every failure of strptime by it
analyze_temporal_context(ts, now) ==
    LET dt == IF Parses(ts) THEN ts ELSE now
        is_exam_period == dt.month \in EXAM_SEASON_MONTHS
        hour == dt.hour
        time_of_day ==
            IF PEAK_HOURS.morning[1] <= hour /\ hour < PEAK_HOURS.morning[2] THEN "morning"
            ELSE IF PEAK_HOURS.afternoon[1] <= hour /\ hour < PEAK_HOURS.afternoon[2] THEN "afternoon"
            ELSE IF PEAK_HOURS.evening[1] <= hour /\ hour < PEAK_HOURS.evening[2] THEN "evening"
            ELSE "night"
        \* in tenths
        peak_multiplier == CASE time_of_day = "morning" -> 8
                             [] time_of_day = "afternoon" -> 10
                             [] time_of_day = "evening" -> 9
                             [] time_of_day = "night" -> 7
        is_weekend == Weekday(dt) >= 5
        \* in hundredths
        weekend_multiplier == IF is_weekend THEN 85 ELSE 100
        time_score == Min(((500000 + (IF is_exam_period THEN 300000 ELSE 0))
                            * peak_multiplier * weekend_multiplier) \div 1000, ONE)
        explanation_parts ==
            (IF is_exam_period THEN << "Exam period - higher priority" >> ELSE << >>)
            \o << << "Reported during", time_of_day >> >>
            \o (IF is_weekend THEN << "Weekend - slightly lower priority" >> ELSE << >>)
    IN  [ time_score |-> time_score,
          is_exam_period |-> is_exam_period,
          time_of_day |-> time_of_day,
          is_weekend |-> is_weekend,
          is_peak_hour |-> peak_multiplier >= 9,
          explanation |-> explanation_parts ]

-----------------------------------------------------------------------------
\* RecurringIssueDetector.detect_recurring_pattern

\* AtLeast with a strict comparison
AtLeastStrictly(q, threshold) == q[1] * ONE > threshold * q[2]

\* the similarity len(a & b) / len(a | b) is kept as the pair << len(a & b), len(a | b) >>
\* q >= threshold, threshold in millionths
AtLeast(q, threshold) == q[1] * ONE >= threshold * q[2]

\* the division len(a & b) / len(a | b) raises for some entry of the list
DivisionRaises(current_words, hists) ==
    \E k \in 1..Len(hists) : current_words \cup WordSet(Lower(hists[k])) = {}

\* the loop over historical_issues, when no division raises: the similar entries
RECURSIVE SimilarIssues(_, _, _)
SimilarIssues(current_words, hists, similarity_threshold) ==
    IF hists = << >> THEN << >>
    ELSE LET hist == Head(hists)
             hist_words == WordSet(Lower(hist))
             similarity == << Cardinality(current_words \cap hist_words),
                              Cardinality(current_words \cup hist_words) >>
         IN  (IF AtLeast(similarity, similarity_threshold)
              THEN << [ text |-> hist, similarity |-> similarity ] >>
              ELSE << >>) \o SimilarIssues(current_words, Tail(hists), similarity_threshold)

\* the default of the similarity_threshold parameter
DefaultSimilarityThreshold == 600000

detect_recurring_pattern(current_text, hists, similarity_threshold) ==
    IF hists = << >> THEN
        [ is_recurring |-> FALSE, recurrence_count |-> 0, similar_issues |-> << >>,
          explanation |-> << "No historical data available" >>,
          escalation_recommended |-> FALSE ]
    ELSE
        LET current_words == WordSet(Lower(current_text))
            similar_issues == SimilarIssues(current_words, hists, similarity_threshold)
        IN  IF DivisionRaises(current_words, hists) THEN Raised("ZeroDivisionError")
            ELSE
                LET recurrence_count == Len(similar_issues)
                    is_recurring == recurrence_count >= 3
                    explanation ==
                        IF is_recurring THEN << "RECURRING ISSUE: similar reports found", recurrence_count >>
                        ELSE IF recurrence_count > 0 THEN << "Similar to past issue(s)", recurrence_count >>
                        ELSE << "First occurrence of this issue" >>
                IN  [ is_recurring |-> is_recurring,
                      recurrence_count |-> recurrence_count,
                      similar_issues |-> Prefix(similar_issues, 5),
                      explanation |-> explanation,
                      escalation_recommended |-> is_recurring ]

-----------------------------------------------------------------------------
\* The arguments the engine is called with

\* bounds
MaxWords == 2
MaxHist == 3

SeqsUpTo(S, n) == UNION { [1..k -> S] : k \in 0..n }

\* "Urgent", "exam", "entire", "my"
Vocab == { <<"U","r","g","e","n","t">>, <<"e","x","a","m">>,
           <<"e","n","t","i","r","e">>, <<"m","y">> }

\* "urgent wifi down entire building exam now"
ExampleReport == <<"u","r","g","e","n","t"," ","w","i","f","i"," ","d","o","w","n"," ","e","n","t","i","r","e"," ","b","u","i","l","d","i","n","g"," ","e","x","a","m"," ","n","o","w">>

\* "URGENT asap exam entire"
ExampleAllTiers == <<"U","R","G","E","N","T"," ","a","s","a","p"," ","e","x","a","m"," ","e","n","t","i","r","e">>

\* "lab room"
ExampleMedium == <<"l","a","b"," ","r","o","o","m">>

\* " "
ExampleBlank == << " " >>

Texts == { Join(ws) : ws \in SeqsUpTo(Vocab, MaxWords) }
         \cup { ExampleReport, ExampleAllTiers, ExampleMedium, ExampleBlank }

\* "", "my exam"
HistTexts == { << >>, <<"m","y"," ","e","x","a","m">> }

Histories == SeqsUpTo(HistTexts, MaxHist)

\* 2024-04-13 is a Saturday, 2024-04-15 a Monday, 2024-06-13 a Thursday, 2024-06-15 a Saturday
Clock == { Formatted(2024, mo, d, 14, 0, 0) : mo \in { 4, 6 }, d \in { 13, 15 } }

\* "2024-13-01 14:00:00" has the form and does not parse
Timestamps == Clock \cup { NoTimestamp, Formatted(2024, 13, 1, 14, 0, 0) }

Categories == { "Network", "Admin", None }

-----------------------------------------------------------------------------
\* CompleteRuleEngine.analyze_issue

\* the weights written in analyze_issue, in hundredths
InlineWeights == [ urgency_score |-> 40, time_sensitivity |-> 30,
                   impact_score |-> 30, recurrence_score |-> 10 ]

weights == DictMerge(InlineWeights, PRIORITY_WEIGHTS)

\* the weighted sum of the four scorers' results, in millionths
combined_score_of(urgency, time_ctx, impact, recurring) ==
    Min((urgency.urgency_score * weights.urgency_score
         + time_ctx.time_score * weights.time_sensitivity
         + impact.impact_score * weights.impact_score) \div 100
        + (IF recurring.is_recurring THEN weights.recurrence_score * 10000 ELSE 0),
        ONE)

\* a plausible slip: the recurrence override is left out
rule_priority_no_override(combined_score, is_recurring) ==
    IF combined_score >= 750000 THEN "P1"
    ELSE IF combined_score >= 450000 THEN "P2"
    ELSE "P3"

\* a plausible slip: the P2 threshold is 0.5
rule_priority_half(combined_score, is_recurring) ==
    IF combined_score >= 750000 \/ is_recurring THEN "P1"
    ELSE IF combined_score >= 500000 THEN "P2"
    ELSE "P3"

\* the priority derived from the combined score and the recurrence flag
rule_priority_of(combined_score, is_recurring) ==
    IF combined_score >= 750000 \/ is_recurring THEN "P1"
    ELSE IF combined_score >= 450000 THEN "P2"
    ELSE "P3"

\* hists is historical_issues or []: an absent list and an empty list are both << >>
analyze_issue(txt, ts, cat, hists, now) ==
    LET \* timestamp or datetime.now().strftime(...)
        ts1 == IF ts = NoTimestamp THEN now ELSE ts
        urgency == detect_urgency_signals(txt)
        time_ctx == analyze_temporal_context(ts1, now)
        impact == assess_impact(txt, cat)
        recurring == detect_recurring_pattern(txt, hists, DefaultSimilarityThreshold)
    IN  IF ~Returned(recurring) THEN recurring
        ELSE
            LET combined_score == combined_score_of(urgency, time_ctx, impact, recurring)
                priority == rule_priority_of(combined_score, recurring.is_recurring)
                label == CASE priority = "P1" -> "High"
                           [] priority = "P2" -> "Medium"
                           [] priority = "P3" -> "Low"
            IN  [ rule_priority |-> priority,
                  priority_label |-> label,
                  combined_score |-> combined_score,
                  urgency_analysis |-> urgency,
                  time_analysis |-> time_ctx,
                  impact_analysis |-> impact,
                  recurring_analysis |-> recurring,
                  explanation |-> << "Rule-based priority", priority, "combined score", combined_score >> ]

-----------------------------------------------------------------------------
\* PriorityIntelligenceEngine.calculate_final_priority

priority_to_num == [ p \in { "P1", "P2", "P3" } |->
                        CASE p = "P1" -> 3 [] p = "P2" -> 2 [] p = "P3" -> 1 ]

num_to_priority == << "P3", "P2", "P1" >>

\* A value of the department_load mapping: a number, or anything else (the
\* records calculate_department_load builds are dicts)
Num(n) == [ type |-> "number", value |-> n ]

\* `load_pct > 90` is defined for a number and raises TypeError for a dict
IsNumber(v) == "type" \in DOMAIN v /\ v.type = "number"

\* Python's truth value of the department_load argument: None and {} are false
NoLoad == [ state |-> "None" ]
Truthy(d) == d # NoLoad /\ DOMAIN d # {}

\* a plausible slip: the hybrid branch takes the lower of the two priorities
select_base_lower(ml_num, rule_num, ml_confidence, rule_score) ==
    IF ml_confidence >= 750000 THEN
        [ num |-> ml_num, decision_source |-> "ML (High Confidence)" ]
    ELSE IF rule_score >= 700000 THEN
        [ num |-> rule_num, decision_source |-> "Rules (High Score)" ]
    ELSE
        [ num |-> Min(ml_num, rule_num), decision_source |-> "Hybrid (Conservative)" ]

\* the confidence policy: the priority the triggers start from, and its source
select_base(ml_num, rule_num, ml_confidence, rule_score) ==
    IF ml_confidence >= 750000 THEN
        [ num |-> ml_num, decision_source |-> "ML (High Confidence)" ]
    ELSE IF rule_score >= 700000 THEN
        [ num |-> rule_num, decision_source |-> "Rules (High Score)" ]
    ELSE
        [ num |-> Max(ml_num, rule_num), decision_source |-> "Hybrid (Conservative)" ]

\* a plausible slip: the trigger is recorded and the priority is left as it is
trigger_recurring_no_floor(final_num, rule) ==
    IF Get(Get(rule, "recurring_analysis", << >>), "is_recurring", FALSE)
    THEN [ num |-> final_num, triggers |-> << "Recurring issue pattern detected" >> ]
    ELSE [ num |-> final_num, triggers |-> << >> ]

\* a plausible slip: the trigger is recorded only when it raises the priority
trigger_recurring_only_if_raised(final_num, rule) ==
    IF /\ Get(Get(rule, "recurring_analysis", << >>), "is_recurring", FALSE)
       /\ final_num < 2
    THEN [ num |-> 2, triggers |-> << "Recurring issue pattern detected" >> ]
    ELSE [ num |-> final_num, triggers |-> << >> ]

\* Trigger 1: recurring issue
trigger_recurring(final_num, rule) ==
    IF Get(Get(rule, "recurring_analysis", << >>), "is_recurring", FALSE)
    THEN [ num |-> Max(final_num, 2), triggers |-> << "Recurring issue pattern detected" >> ]
    ELSE [ num |-> final_num, triggers |-> << >> ]

\* a plausible slip: the priority is set to P2, not raised to it
trigger_high_impact_assign(final_num, rule) ==
    IF Get(Get(rule, "impact_analysis", << >>), "impact_level", None) = "HIGH"
    THEN [ num |-> 2, triggers |-> << "High impact - multiple users affected" >> ]
    ELSE [ num |-> final_num, triggers |-> << >> ]

\* Trigger 2: high impact
trigger_high_impact(final_num, rule) ==
    IF Get(Get(rule, "impact_analysis", << >>), "impact_level", None) = "HIGH"
    THEN [ num |-> Max(final_num, 2), triggers |-> << "High impact - multiple users affected" >> ]
    ELSE [ num |-> final_num, triggers |-> << >> ]

\* a plausible slip: the trigger floors at P2 as the other two do
trigger_exam_urgent_floor(final_num, rule) ==
    IF /\ Get(Get(rule, "time_analysis", << >>), "is_exam_period", FALSE)
       /\ Get(Get(rule, "urgency_analysis", << >>), "urgency_level", None) = "HIGH"
    THEN [ num |-> Max(final_num, 2), triggers |-> << "Exam period + urgent keywords" >> ]
    ELSE [ num |-> final_num, triggers |-> << >> ]

\* Trigger 3: exam period + urgent keywords
trigger_exam_urgent(final_num, rule) ==
    IF /\ Get(Get(rule, "time_analysis", << >>), "is_exam_period", FALSE)
       /\ Get(Get(rule, "urgency_analysis", << >>), "urgency_level", None) = "HIGH"
    THEN [ num |-> 3, triggers |-> << "Exam period + urgent keywords" >> ]
    ELSE [ num |-> final_num, triggers |-> << >> ]

\* department_adjustment_of without the test on the final priority
department_adjustment_any_priority(load, cat, final_priority) ==
    IF Truthy(load) /\ Get(load, cat, Num(0)).value > 90
    THEN << cat, "dept at capacity - consider reassignment", Get(load, cat, Num(0)).value >>
    ELSE << >>

\* The load advisory; << >> is the empty string
department_adjustment_of(load, cat, final_priority) ==
    IF Truthy(load) /\ Get(load, cat, Num(0)).value > 90 /\ final_priority = "P3"
    THEN << cat, "dept at capacity - consider reassignment", Get(load, cat, Num(0)).value >>
    ELSE << >>

calculate_final_priority(ml, rule, load) ==
    LET ml_priority == Get(ml, "priority", "P3")
        ml_confidence == Get(ml, "priority_confidence", 500000)
        rule_priority == Get(rule, "rule_priority", "P3")
        rule_score == Get(rule, "combined_score", 500000)
        ml_num == priority_to_num[ml_priority]
        rule_num == priority_to_num[rule_priority]
        base == select_base(ml_num, rule_num, ml_confidence, rule_score)
        decision_source == base.decision_source
        t1 == trigger_recurring(base.num, rule)
        t2 == trigger_high_impact(t1.num, rule)
        t3 == trigger_exam_urgent(t2.num, rule)
        final_num == t3.num
        escalation_triggers == t1.triggers \o t2.triggers \o t3.triggers
        final_priority == num_to_priority[final_num]
        cat == Get(ml, "category", "Unknown")
        load_pct == IF Truthy(load) THEN Get(load, cat, Num(0)) ELSE Num(0)
        \* both are formatted with fixed precision in the source; kept as numbers here
        explanation ==
            << << "Final Priority", final_priority >>,
               << "Decision Source", decision_source >>,
               << "ML Confidence", ml_confidence, "Rule Score", rule_score >> >>
            \o (IF escalation_triggers # << >>
                THEN << "Auto-Escalation Triggers" >> \o escalation_triggers ELSE << >>)
    IN  IF ml_priority \notin DOMAIN priority_to_num \/ rule_priority \notin DOMAIN priority_to_num
        THEN Raised("KeyError")
        ELSE IF Truthy(load) /\ ~IsNumber(load_pct)
        THEN Raised("TypeError")
        ELSE
            [ final_priority |-> final_priority,
              ml_priority |-> ml_priority,
              rule_priority |-> rule_priority,
              decision_source |-> decision_source,
              escalation_triggers |-> escalation_triggers,
              department_adjustment |-> department_adjustment_of(load, cat, final_priority),
              confidence_score |-> Max(ml_confidence, rule_score),
              explanation |-> explanation ]

-----------------------------------------------------------------------------
\* The arguments calculate_final_priority is called with

EmptyDict == [ k \in {} |-> None ]

Priorities == { "P1", "P2", "P3" }

\* ML confidences around the 0.75 threshold, rule scores around the 0.70 threshold
Confidences == { 500000, 749999, 750000, 950000 }
RuleScores == { 300000, 699999, 700000 }

MlResults ==
    { [ priority |-> p, priority_confidence |-> c, category |-> k ] :
        p \in Priorities, c \in Confidences, k \in { "Network", "Admin" } }
    \cup { [ priority |-> p, category |-> "Network" ] : p \in Priorities }
    \cup { EmptyDict }

\* any dict of the shape analyze_issue returns, its fields unrelated to each other
RuleResults ==
    { [ rule_priority |-> p,
        combined_score |-> sc,
        urgency_analysis |-> [ urgency_level |-> u ],
        time_analysis |-> [ is_exam_period |-> ex ],
        impact_analysis |-> [ impact_level |-> im ],
        recurring_analysis |-> [ is_recurring |-> rec ] ] :
        p \in Priorities, sc \in RuleScores, u \in { "MEDIUM", "HIGH" }, ex \in BOOLEAN,
        im \in { "LOW", "HIGH" }, rec \in BOOLEAN }
    \cup { EmptyDict }

Loads == { NoLoad, EmptyDict,
           [ c \in { "Network" } |-> Num(95) ],
           [ c \in { "Network", "Admin" } |-> IF c = "Network" THEN Num(90) ELSE Num(91) ] }

-----------------------------------------------------------------------------
\* The rule engine called on one report

Init ==
    /\ text \in Texts
    /\ timestamp \in Timestamps
    /\ category \in Categories
    /\ historical_issues \in Histories
    /\ rule_result = NotCalled
    /\ ml_result = EmptyDict
    /\ department_load = NoLoad
    /\ final_result = NotCalled
    /\ issues = << >>
    /\ params = EmptyDict
    /\ result = NotCalled

AnalyzeIssue ==
    /\ rule_result = NotCalled
    /\ \E now \in (IF Parses(timestamp) THEN { timestamp } ELSE Clock) :
          rule_result' = analyze_issue(text, timestamp, category, historical_issues, now)
    /\ UNCHANGED << text, timestamp, category, historical_issues,
                    ml_result, department_load, final_result,
                    issues, params, result >>

Next == AnalyzeIssue

Spec == Init /\ [][Next]_vars

-----------------------------------------------------------------------------
\* The fusion engine called on one classifier result and one rule result

InitFusion ==
    /\ text = << >>
    /\ timestamp = NoTimestamp
    /\ category = None
    /\ historical_issues = << >>
    /\ rule_result \in RuleResults
    /\ ml_result = EmptyDict
    /\ department_load = NoLoad
    /\ final_result = NotCalled
    /\ issues = << >>
    /\ params = EmptyDict
    /\ result = NotCalled

CalculateFinalPriority ==
    /\ Returned(rule_result)
    /\ final_result = NotCalled
    /\ \E ml \in MlResults, load \in Loads :
          /\ ml_result' = ml
          /\ department_load' = load
          /\ final_result' = calculate_final_priority(ml, rule_result, load)
    /\ UNCHANGED << text, timestamp, category, historical_issues, rule_result,
                    issues, params, result >>

NextFusion == CalculateFinalPriority

SpecFusion == InitFusion /\ [][NextFusion]_vars

-----------------------------------------------------------------------------
\* Lists, counters and sorting

\* What a batch operation left in `result`
Ret(value) == [ state |-> "returned", value |-> value ]

\* range(a, b + 1) as a list
RECURSIVE Range(_, _)
Range(a, b) == IF a > b THEN << >> ELSE << a >> \o Range(a + 1, b)

\* [seq[i] for i in indices]
RECURSIVE Pick(_, _)
Pick(seq, indices) ==
    IF indices = << >> THEN << >>
    ELSE << seq[Head(indices)] >> \o Pick(seq, Tail(indices))

Elements(seq) == { seq[i] : i \in DOMAIN seq }

RECURSIVE SumOf(_)
SumOf(numbers) == IF numbers = << >> THEN 0 ELSE Head(numbers) + SumOf(Tail(numbers))

\* text.split(): the maximal runs of non-whitespace characters, in order
RECURSIVE Split(_)
Split(s) ==
    IF \A i \in DOMAIN s : s[i] \in Whitespace THEN << >>
    ELSE LET first == CHOOSE i \in DOMAIN s :
                          /\ s[i] \notin Whitespace
                          /\ \A j \in 1..(i - 1) : s[j] \in Whitespace
             last  == CHOOSE i \in first..Len(s) :
                          /\ i = Len(s) \/ s[i + 1] \in Whitespace
                          /\ \A j \in first..i : s[j] \notin Whitespace
         IN  << SubSeq(s, first, last) >> \o Split(SubSeq(s, last + 1, Len(s)))

\* sorted(seq, key=lambda x: x[key], reverse=True): Python's sort is stable,
\* so entries of equal key keep their order
RECURSIVE SortDesc(_, _)
SortDesc(seq, key) ==
    IF seq = << >> THEN << >>
    ELSE LET top   == CHOOSE m \in { seq[i][key] : i \in DOMAIN seq } :
                         \A i \in DOMAIN seq : seq[i][key] <= m
             first == CHOOSE i \in DOMAIN seq :
                         /\ seq[i][key] = top
                         /\ \A j \in 1..(i - 1) : seq[j][key] # top
         IN  << seq[first] >>
             \o SortDesc(SubSeq(seq, 1, first - 1) \o SubSeq(seq, first + 1, Len(seq)), key)

\* The distinct elements of seq in order of first appearance (the key order
\* of a Counter or of a dict filled by reading seq)
RECURSIVE Distinct(_, _)
Distinct(seq, seen) ==
    IF seq = << >> THEN << >>
    ELSE IF Head(seq) \in seen THEN Distinct(Tail(seq), seen)
    ELSE << Head(seq) >> \o Distinct(Tail(seq), seen \cup { Head(seq) })

Occurrences(x, seq) == Cardinality({ i \in DOMAIN seq : seq[i] = x })

RECURSIVE CountEach(_, _)
CountEach(keys, seq) ==
    IF keys = << >> THEN << >>
    ELSE << [ item |-> Head(keys), count |-> Occurrences(Head(keys), seq) ] >>
         \o CountEach(Tail(keys), seq)

\* Counter(seq).most_common(): by count, first-seen first among equal counts
most_common(seq) == SortDesc(CountEach(Distinct(seq, {}), seq), "count")

-----------------------------------------------------------------------------
\* modules/clustering.py: the vectorizer and the cosine similarity
\*
\* The vectorizer is supplied from outside, already fitted.  It is modelled
\* as the term counts of a text over a fitted vocabulary.  A cosine is kept
\* as the dot product and the product of the two squared norms, and compared
\* through its square, so that no square root is taken.

\* "wifi", "down", "slow", "printer", "offline"
Vocabulary == << <<"w","i","f","i">>, <<"d","o","w","n">>, <<"s","l","o","w">>,
                 <<"p","r","i","n","t","e","r">>, <<"o","f","f","l","i","n","e">> >>

RECURSIVE TermCounts(_, _)
TermCounts(words, t) ==
    IF t > Len(Vocabulary) THEN << >>
    ELSE << Occurrences(Vocabulary[t], words) >> \o TermCounts(words, t + 1)

\* vectorizer.transform([txt])
transform(txt) == TermCounts(Split(txt), 1)

RECURSIVE transform_all(_)
transform_all(texts) ==
    IF texts = << >> THEN << >>
    ELSE << transform(Head(texts)) >> \o transform_all(Tail(texts))

RECURSIVE Dot(_, _)
Dot(u, v) == IF u = << >> THEN 0 ELSE Head(u) * Head(v) + Dot(Tail(u), Tail(v))

\* cosine_similarity of two vectors; 0 when either is the zero vector
cosine_similarity(u, v) ==
    LET norms == Dot(u, u) * Dot(v, v)
    IN  IF norms = 0 THEN [ dot |-> 0, norms |-> 1 ]
        ELSE [ dot |-> Dot(u, v), norms |-> norms ]

\* cos >= pct / 100
CosAtLeast(cos, pct) == cos.dot * cos.dot * 10000 >= pct * pct * cos.norms

\* cos1 >= cos2
CosGeq(cos1, cos2) == cos1.dot * cos1.dot * cos2.norms >= cos2.dot * cos2.dot * cos1.norms

\* config.py CLUSTERING_SIMILARITY_THRESHOLD, in hundredths
CLUSTERING_SIMILARITY_THRESHOLD == 70

RECURSIVE CleanedTexts(_)
CleanedTexts(batch) ==
    IF batch = << >> THEN << >>
    ELSE << Head(batch).cleaned_text >> \o CleanedTexts(Tail(batch))

-----------------------------------------------------------------------------
\* modules/clustering.py: IssueClustering

RECURSIVE Labels(_, _, _)
Labels(batch, key, default) ==
    IF batch = << >> THEN << >>
    ELSE << Get(Head(batch), key, default) >> \o Labels(Tail(batch), key, default)

RECURSIVE LongerThan(_, _)
LongerThan(counted, n) ==
    IF counted = << >> THEN << >>
    ELSE (IF Len(Head(counted).item) > n THEN << Head(counted).item >> ELSE << >>)
         \o LongerThan(Tail(counted), n)

analyze_cluster(cluster_issues_) ==
    LET categories == Labels(cluster_issues_, "category_label", "Unknown")
        priorities == Labels(cluster_issues_, "priority_label", "P3")
        words == Split(Join(CleanedTexts(cluster_issues_)))
        common_words == Prefix(LongerThan(Prefix(most_common(words), 10), 3), 5)
        cluster_size == Len(cluster_issues_)
        high_priority_count == Occurrences("P1", priorities)
    IN  [ cluster_size |-> cluster_size,
          common_category |-> most_common(categories)[1].item,
          common_priority |-> most_common(priorities)[1].item,
          root_cause_hypothesis |-> Join(common_words),
          urgency_signal |->
              IF cluster_size >= 5 \/ high_priority_count >= 3
              THEN "HIGH - IMMEDIATE ATTENTION REQUIRED"
              ELSE IF cluster_size >= 3 THEN "MEDIUM - MONITOR CLOSELY"
              ELSE "LOW - ROUTINE PATTERN",
          high_priority_count |-> high_priority_count ]

RECURSIVE IssueIds(_, _)
IssueIds(batch, indices) ==
    IF indices = << >> THEN << >>
    ELSE << Get(batch[Head(indices)], "issue_id", << "issue_", Head(indices) - 1 >>) >>
         \o IssueIds(batch, Tail(indices))

\* joined_by_threshold without the similarity test
joined_regardless(i, visited, vectors, threshold) ==
    SelectIn(Range(i + 1, Len(vectors)), { j \in (i + 1)..Len(vectors) : j \notin visited })

\* joined_by_threshold looking at the next report only
joined_adjacent_only(i, visited, vectors, threshold) ==
    SelectIn(Range(i + 1, Len(vectors)),
             { j \in { i + 1 } \cap (1..Len(vectors)) :
                   /\ j \notin visited
                   /\ CosAtLeast(cosine_similarity(vectors[i], vectors[j]), threshold) })

\* joined_by_threshold comparing each report with the one before it, not the seed
joined_to_last(i, visited, vectors, threshold) ==
    SelectIn(Range(i + 1, Len(vectors)),
             { j \in (i + 1)..Len(vectors) :
                   /\ j \notin visited
                   /\ CosAtLeast(cosine_similarity(vectors[j - 1], vectors[j]), threshold) })

\* The inner loop of cluster_issues: the later reports, not yet visited, whose
\* similarity to report i reaches the threshold
\* a plausible slip: the inner loop starts at i + 2
joined_after_next(i, visited, vectors, threshold) ==
    SelectIn(Range(i + 2, Len(vectors)),
             { j \in (i + 2)..Len(vectors) :
                   /\ j \notin visited
                   /\ CosAtLeast(cosine_similarity(vectors[i], vectors[j]), threshold) })

joined_by_threshold(i, visited, vectors, threshold) ==
    SelectIn(Range(i + 1, Len(vectors)),
             { j \in (i + 1)..Len(vectors) :
                   /\ j \notin visited
                   /\ CosAtLeast(cosine_similarity(vectors[i], vectors[j]), threshold) })

RECURSIVE cluster_loop(_, _, _, _, _, _)
cluster_loop(i, visited, clusters, batch, vectors, threshold) ==
    IF i > Len(batch) THEN clusters
    ELSE IF i \in visited THEN cluster_loop(i + 1, visited, clusters, batch, vectors, threshold)
    ELSE LET members == << i >> \o joined_by_threshold(i, visited, vectors, threshold)
             cluster == [ cluster_id |-> Len(clusters) + 1,
                          issues |-> Pick(batch, members),
                          issue_ids |-> IssueIds(batch, members) ]
         IN  cluster_loop(i + 1, visited \cup Elements(members),
                          IF Len(members) >= 2
                          THEN Append(clusters, DictMerge(cluster, analyze_cluster(cluster.issues)))
                          ELSE clusters,
                          batch, vectors, threshold)

\* cluster_issues without the sort by cluster_size
cluster_issues_unsorted(vectorizer, similarity_threshold, batch) ==
    IF vectorizer = None \/ batch = << >> THEN Ret(<< >>)
    ELSE Ret(cluster_loop(1, {}, << >>, batch, transform_all(CleanedTexts(batch)),
                          similarity_threshold))

cluster_issues(vectorizer, similarity_threshold, batch) ==
    IF vectorizer = None \/ batch = << >> THEN Ret(<< >>)
    ELSE Ret(SortDesc(cluster_loop(1, {}, << >>, batch, transform_all(CleanedTexts(batch)),
                                   similarity_threshold),
                      "cluster_size"))

\* similarities of the query text to every report of all_issues
similarities_to(issue_text, all_issues) ==
    LET current_vector == transform(issue_text)
        all_vectors == transform_all(CleanedTexts(all_issues))
    IN  Pick([ i \in DOMAIN all_vectors |-> cosine_similarity(current_vector, all_vectors[i]) ],
             Range(1, Len(all_vectors)))

\* np.argsort(similarities)[::-1]: the indices by non-increasing similarity.
\* The order of equal similarities is whatever the sort leaves, so every
\* such order is a possible value.
RECURSIVE descending_orders(_, _)
descending_orders(similarities, remaining) ==
    IF remaining = {} THEN { << >> }
    ELSE LET tops == { i \in remaining :
                          \A j \in remaining : CosGeq(similarities[i], similarities[j]) }
         IN  UNION { { << i >> \o rest : rest \in descending_orders(similarities, remaining \ { i }) } :
                     i \in tops }

argsort_descending(similarities) == descending_orders(similarities, DOMAIN similarities)

\* scored_copy without the copy: the score is written into the caller's report
scored_in_place(all_issues, idx, score) ==
    LET similar_issue == DictMerge(all_issues[idx], [ k \in { "similarity_score" } |-> score ])
    IN  [ similar_issue |-> similar_issue,
          all_issues |-> [ all_issues EXCEPT ![idx] = similar_issue ] ]

\* similar_issue = all_issues[idx].copy(); similar_issue['similarity_score'] = score:
\* the entry for the result, and the caller's list afterwards
scored_copy(all_issues, idx, score) ==
    [ similar_issue |-> DictMerge(all_issues[idx], [ k \in { "similarity_score" } |-> score ]),
      all_issues |-> all_issues ]

RECURSIVE similar_loop(_, _, _, _, _)
similar_loop(indices, similarities, threshold, all_issues, similar_issues) ==
    IF indices = << >> THEN [ outcome |-> Ret(similar_issues), all_issues |-> all_issues ]
    ELSE LET idx == Head(indices)
             similarity_score == similarities[idx]
         IN  IF CosAtLeast(similarity_score, 99)
             THEN similar_loop(Tail(indices), similarities, threshold, all_issues, similar_issues)
             ELSE IF ~CosAtLeast(similarity_score, threshold)
             THEN [ outcome |-> Ret(similar_issues), all_issues |-> all_issues ]
             ELSE LET scored == scored_copy(all_issues, idx, similarity_score)
                  IN  similar_loop(Tail(indices), similarities, threshold,
                                   scored.all_issues,
                                   Append(similar_issues, scored.similar_issue))

\* find_similar_issues without the [:top_n] cut
find_similar_issues_uncut(vectorizer, similarity_threshold, similarities, all_issues, top_n, similar_indices) ==
    IF vectorizer = None
    THEN [ outcome |-> Raised("ValueError"), all_issues |-> all_issues ]
    ELSE IF all_issues = << >>
    THEN [ outcome |-> Ret(<< >>), all_issues |-> all_issues ]
    ELSE similar_loop(similar_indices,
                      similarities, similarity_threshold, all_issues, << >>)

\* a plausible slip: the self-matches are dropped before the cut at top_n
find_similar_issues_skip_before_cut(vectorizer, similarity_threshold, similarities, all_issues, top_n, similar_indices) ==
    IF vectorizer = None
    THEN [ outcome |-> Raised("ValueError"), all_issues |-> all_issues ]
    ELSE IF all_issues = << >>
    THEN [ outcome |-> Ret(<< >>), all_issues |-> all_issues ]
    ELSE similar_loop(Prefix(SelectIn(similar_indices,
                                      { i \in DOMAIN similarities : ~CosAtLeast(similarities[i], 99) }),
                             top_n),
                      similarities, similarity_threshold, all_issues, << >>)

\* The outcome of the call and the caller's list after it; similarities is
\* the value cosine_similarity gave and similar_indices the value argsort gave
find_similar_issues(vectorizer, similarity_threshold, similarities, all_issues, top_n, similar_indices) ==
    IF vectorizer = None
    THEN [ outcome |-> Raised("ValueError"), all_issues |-> all_issues ]
    ELSE IF all_issues = << >>
    THEN [ outcome |-> Ret(<< >>), all_issues |-> all_issues ]
    ELSE similar_loop(Prefix(similar_indices, top_n),
                      similarities, similarity_threshold, all_issues, << >>)

-----------------------------------------------------------------------------
\* modules/clustering.py: PatternMiner

\* The bigrams of one report, each with the labels and the id of the report
RECURSIVE bigrams_of(_, _)
bigrams_of(issue, words) ==
    IF Len(words) < 2 THEN << >>
    ELSE << [ pattern |-> words[1] \o << " " >> \o words[2],
              category |-> Get(issue, "category_label", "Unknown"),
              priority |-> Get(issue, "priority_label", "P3"),
              issue_id |-> Get(issue, "issue_id", << >>) ] >>
         \o bigrams_of(issue, Tail(words))

\* Every bigram occurrence of the batch, in the order the loops meet them
RECURSIVE all_bigrams(_)
all_bigrams(batch) ==
    IF batch = << >> THEN << >>
    ELSE bigrams_of(Head(batch), Split(Get(Head(batch), "cleaned_text", << >>)))
         \o all_bigrams(Tail(batch))

RECURSIVE Field(_, _)
Field(records, key) ==
    IF records = << >> THEN << >>
    ELSE << Head(records)[key] >> \o Field(Tail(records), key)

RECURSIVE WithPattern(_, _)
WithPattern(occurrences, pattern) ==
    IF occurrences = << >> THEN << >>
    ELSE (IF Head(occurrences).pattern = pattern THEN << Head(occurrences) >> ELSE << >>)
         \o WithPattern(Tail(occurrences), pattern)

\* supported with > for >=
supported_above(count, min_support) == count > min_support

\* min_support is met by the pattern's count
supported(count, min_support) == count >= min_support

RECURSIVE frequent_patterns(_, _, _)
frequent_patterns(patterns, occurrences, min_support) ==
    IF patterns = << >> THEN << >>
    ELSE LET data == WithPattern(occurrences, Head(patterns))
         IN  (IF supported(Len(data), min_support)
              THEN << [ pattern |-> Head(patterns),
                        frequency |-> Len(data),
                        common_category |-> most_common(Field(data, "category"))[1].item,
                        common_priority |-> most_common(Field(data, "priority"))[1].item,
                        issue_ids |-> Prefix(Field(data, "issue_id"), 10) ] >>
              ELSE << >>)
             \o frequent_patterns(Tail(patterns), occurrences, min_support)

mine_frequent_patterns(batch, min_support) ==
    LET occurrences == all_bigrams(batch)
    IN  Ret(SortDesc(frequent_patterns(Distinct(Field(occurrences, "pattern"), {}),
                                       occurrences, min_support),
                     "frequency"))

-----------------------------------------------------------------------------
\* The recurrence detector called on one text and one history

MaxHistory == 6

\* "My Exam", "my exam", "my exam entire urgent"
TextMyExam == <<"M","y"," ","E","x","a","m">>
TextMyExamLower == <<"m","y"," ","e","x","a","m">>
TextMyExamEntireUrgent == <<"m","y"," ","e","x","a","m"," ","e","n","t","i","r","e"," ","u","r","g","e","n","t">>

CurrentTexts == { TextMyExam, << >> }
PastTexts == { TextMyExamLower, TextMyExamEntireUrgent, << >> }
SimilarityThresholds == { 500000, DefaultSimilarityThreshold, ONE }

InitRecurring ==
    /\ text \in CurrentTexts
    /\ timestamp = NoTimestamp
    /\ category = None
    /\ historical_issues \in SeqsUpTo(PastTexts, MaxHistory)
    /\ rule_result = NotCalled
    /\ ml_result = EmptyDict
    /\ department_load = NoLoad
    /\ final_result = NotCalled
    /\ issues = << >>
    /\ params = EmptyDict
    /\ result = NotCalled

DetectRecurringPattern ==
    /\ result = NotCalled
    /\ \E similarity_threshold \in SimilarityThresholds :
          LET out == detect_recurring_pattern(text, historical_issues, similarity_threshold)
          IN  /\ params' = [ operation |-> "detect_recurring_pattern",
                             similarity_threshold |-> similarity_threshold ]
              /\ result' = IF Returned(out) THEN Ret(out) ELSE out
    /\ UNCHANGED << text, timestamp, category, historical_issues,
                    rule_result, ml_result, department_load, final_result, issues >>

NextRecurring == DetectRecurringPattern

SpecRecurring == InitRecurring /\ [][NextRecurring]_vars

-----------------------------------------------------------------------------
\* modules/priority_engine.py: calculate_department_load

DEPARTMENT_CAPACITY ==
    [ c \in { "Network", "IT Support", "Academic", "Facilities", "Admin" } |->
          CASE c = "Network" -> 20
            [] c = "IT Support" -> 25
            [] c = "Academic" -> 15
            [] c = "Facilities" -> 18
            [] c = "Admin" -> 12 ]

RECURSIVE open_categories(_)
open_categories(current_issues) ==
    IF current_issues = << >> THEN << >>
    ELSE (IF Get(Head(current_issues), "issue_status", None) \in { "New", "Assigned", "In Progress" }
          THEN << Get(Head(current_issues), "category_label", "Unknown") >>
          ELSE << >>)
         \o open_categories(Tail(current_issues))

\* load_percentage is current_load * 100 / capacity, kept as that fraction
calculate_department_load(current_issues) ==
    LET category_counts == open_categories(current_issues)
    IN  Ret([ c \in DOMAIN DEPARTMENT_CAPACITY |->
                LET current_load == Occurrences(c, category_counts)
                    capacity == DEPARTMENT_CAPACITY[c]
                IN  [ current_load |-> current_load,
                      capacity |-> capacity,
                      load_percentage |-> << current_load * 100, capacity >>,
                      status |-> IF current_load * 100 > 100 * capacity THEN "OVERLOADED"
                                 ELSE IF current_load * 100 > 80 * capacity THEN "HIGH"
                                 ELSE "NORMAL" ] ])

-----------------------------------------------------------------------------
\* Properties of calculate_final_priority, stated on its arguments and its
\* result (specification SpecFusion)

Rank(p) == CASE p = "P1" -> 3 [] p = "P2" -> 2 [] p = "P3" -> 1

Fused == Returned(final_result)

ArgMlPriority == Get(ml_result, "priority", "P3")
ArgMlConfidence == Get(ml_result, "priority_confidence", 500000)
ArgRulePriority == Get(rule_result, "rule_priority", "P3")
ArgRuleScore == Get(rule_result, "combined_score", 500000)

ArgRecurring == Get(Get(rule_result, "recurring_analysis", << >>), "is_recurring", FALSE)
ArgHighImpact == Get(Get(rule_result, "impact_analysis", << >>), "impact_level", None) = "HIGH"
ArgExamUrgent ==
    /\ Get(Get(rule_result, "time_analysis", << >>), "is_exam_period", FALSE)
    /\ Get(Get(rule_result, "urgency_analysis", << >>), "urgency_level", None) = "HIGH"

AnyTrigger == ArgRecurring \/ ArgHighImpact \/ ArgExamUrgent

HigherOfBoth == Max(Rank(ArgMlPriority), Rank(ArgRulePriority))

\* steps 1-3 of the decision policy
PolicySource ==
    IF ArgMlConfidence >= 750000 THEN "ML (High Confidence)"
    ELSE IF ArgRuleScore >= 700000 THEN "Rules (High Score)"
    ELSE "Hybrid (Conservative)"

PolicyBase ==
    CASE PolicySource = "ML (High Confidence)" -> Rank(ArgMlPriority)
      [] PolicySource = "Rules (High Score)" -> Rank(ArgRulePriority)
      [] PolicySource = "Hybrid (Conservative)" -> HigherOfBoth

\* C1: the decision source and the base priority follow the order ML confidence
\* >= 0.75, then rule score >= 0.70, then the higher of the two priorities; with no
\* escalation trigger the final priority is that base.
C1_BaseSelection ==
    Fused =>
        /\ final_result.decision_source = PolicySource
        /\ ~AnyTrigger => Rank(final_result.final_priority) = PolicyBase

C1_Witness ==
    /\ Fused
    /\ ~AnyTrigger
    /\ PolicySource = "Hybrid (Conservative)"
    /\ ArgMlPriority = "P3"
    /\ ArgRulePriority = "P1"
    /\ final_result.final_priority = "P1"

\* C2 as stated: once any escalation trigger fires, the final priority is at least
\* the higher of the ML and rule priorities.
C2_AtLeastHigherOfBoth ==
    Fused /\ AnyTrigger => Rank(final_result.final_priority) >= HigherOfBoth

\* C2 as amended: once any escalation trigger fires, the final priority is at least
\* P2 and at least the base priority of the decision policy, which is the higher of
\* the two priorities only when the source is Hybrid.
C2_AtLeastBaseAndP2 ==
    Fused /\ AnyTrigger =>
        /\ Rank(final_result.final_priority) >= 2
        /\ Rank(final_result.final_priority) >= PolicyBase
        /\ PolicySource = "Hybrid (Conservative)" =>
              Rank(final_result.final_priority) >= HigherOfBoth

C2_Witness ==
    /\ Fused
    /\ ArgRecurring
    /\ ArgMlConfidence >= 750000
    /\ ArgMlPriority = "P3"
    /\ ArgRulePriority = "P1"
    /\ final_result.final_priority = "P2"

\* C3: exam period together with HIGH urgency gives final priority P1, whatever the
\* ML priority and confidence, the rule priority and score, and the department load.
C3_ExamUrgentForcesP1 ==
    Fused /\ ArgExamUrgent => final_result.final_priority = "P1"

C3_Witness ==
    /\ Fused
    /\ ArgExamUrgent
    /\ ArgMlConfidence = 950000
    /\ ArgMlPriority = "P3"
    /\ ArgRulePriority = "P3"
    /\ Truthy(department_load)
    /\ final_result.final_priority = "P1"

\* C4: the final priority is never lower than the base priority of the decision
\* policy, and it is P2 or P1 when recurrence is flagged or the impact level is HIGH.
C4_TriggersOnlyRaise ==
    Fused =>
        /\ Rank(final_result.final_priority) >= PolicyBase
        /\ ArgRecurring \/ ArgHighImpact => final_result.final_priority \in { "P1", "P2" }

C4_Witness ==
    /\ Fused
    /\ ArgHighImpact
    /\ ~ArgRecurring
    /\ ~ArgExamUrgent
    /\ PolicyBase = 3
    /\ final_result.final_priority = "P1"

-----------------------------------------------------------------------------
\* Properties of analyze_issue, stated on its arguments and its result
\* (specification Spec)

Analyzed == Returned(rule_result)

Flagged == rule_result.recurring_analysis.is_recurring

\* the thresholds alone: >= 0.75 gives P1, >= 0.45 gives P2, else P3
ByThresholds(score) ==
    IF score >= 750000 THEN "P1" ELSE IF score >= 450000 THEN "P2" ELSE "P3"

\* C5: rule_priority is P1 iff combined_score >= 0.75 or recurrence is flagged,
\* otherwise P2 iff combined_score >= 0.45, otherwise P3.
C5_RulePriority ==
    Analyzed =>
        /\ rule_result.rule_priority = "P1" <=> (rule_result.combined_score >= 750000 \/ Flagged)
        /\ rule_result.rule_priority = "P2" <=>
              (rule_result.combined_score < 750000 /\ ~Flagged /\ rule_result.combined_score >= 450000)
        /\ rule_result.rule_priority = "P3" <=> (rule_result.combined_score < 450000 /\ ~Flagged)

C5_Witness ==
    /\ Analyzed
    /\ ~Flagged
    /\ rule_result.combined_score >= 750000
    /\ rule_result.rule_priority = "P1"

\* C6: combined_score is min(urgency_score * 0.4 + time_score * 0.3 + impact_score * 0.3
\* + (0.1 if recurring), 1.0).
C6_InlineWeights ==
    Analyzed =>
        rule_result.combined_score =
            Min((rule_result.urgency_analysis.urgency_score * 40
                 + rule_result.time_analysis.time_score * 30
                 + rule_result.impact_analysis.impact_score * 30) \div 100
                + (IF Flagged THEN 100000 ELSE 0),
                ONE)

\* C7: the report "urgent wifi down entire building exam now", at an afternoon hour of
\* an exam month, category Network, no history, gets rule_priority P1.
C7_ExampleReportIsP1 ==
    ( /\ Analyzed
      /\ text = ExampleReport
      /\ Parses(timestamp)
      /\ timestamp.month \in { 4, 5, 11, 12 }
      /\ timestamp.hour \in 12..16
      /\ category = "Network"
      /\ historical_issues = << >> )
    => rule_result.rule_priority = "P1"

\* C8: urgency_score, time_score, impact_score and combined_score all lie in [0, 1].
C8_ScoresInUnitInterval ==
    Analyzed =>
        /\ rule_result.urgency_analysis.urgency_score \in 0..ONE
        /\ rule_result.time_analysis.time_score \in 0..ONE
        /\ rule_result.impact_analysis.impact_score \in 0..ONE
        /\ rule_result.combined_score \in 0..ONE

\* C9: analyze_issue returns a complete result for every text, timestamp, category
\* and history; it never raises.
C9_NeverRaises ==
    rule_result # NotCalled =>
        /\ Returned(rule_result)
        /\ DOMAIN rule_result = { "rule_priority", "priority_label", "combined_score",
                                  "urgency_analysis", "time_analysis", "impact_analysis",
                                  "recurring_analysis", "explanation" }

\* C10 as stated: the thresholds applied to a result's combined_score reproduce its
\* rule_priority.
C10_ThresholdsReproduce ==
    Analyzed => ByThresholds(rule_result.combined_score) = rule_result.rule_priority

\* C10 as amended: the thresholds applied to a result's combined_score reproduce its
\* rule_priority when recurrence is not flagged; when it is flagged the rule_priority
\* is P1 whatever the thresholds give.
C10_ThresholdsReproduceUnlessRecurring ==
    Analyzed =>
        rule_result.rule_priority =
            (IF Flagged THEN "P1" ELSE ByThresholds(rule_result.combined_score))

C10_Witness ==
    /\ Analyzed
    /\ Flagged
    /\ ByThresholds(rule_result.combined_score) = "P3"
    /\ rule_result.rule_priority = "P1"

-----------------------------------------------------------------------------
\* modules/trend_analysis.py: TrendAnalyzer
\*
\* An average is kept as the pair << sum, number of dates >>.

\* strptime(issue['timestamp'], ...) succeeds; the bare except skips a report
\* with no timestamp or with one that does not parse
HasDate(issue) == "timestamp" \in DOMAIN issue /\ Parses(issue.timestamp)

\* ts.strftime("%Y-%m-%d")
DateOf(ts) == << ts.year, ts.month, ts.day >>

\* The order of two date strings of four-digit years
DateBefore(a, b) ==
    \/ a[1] < b[1]
    \/ a[1] = b[1] /\ a[2] < b[2]
    \/ a[1] = b[1] /\ a[2] = b[2] /\ a[3] < b[3]

\* The dates of the reports that have one, a date once for each such report
RECURSIVE ReportDates(_)
ReportDates(batch) ==
    IF batch = << >> THEN << >>
    ELSE (IF HasDate(Head(batch)) THEN << DateOf(Head(batch).timestamp) >> ELSE << >>)
         \o ReportDates(Tail(batch))

\* exceeds with >= for >
reaches(count, avg, factor) == count * avg[2] >= factor * avg[1]

\* count > avg * factor, for the factors 2 and 3
exceeds(count, avg, factor) == count * avg[2] > factor * avg[1]

RECURSIVE anomalies_among(_, _, _)
anomalies_among(dates, daily, avg_daily) ==
    IF dates = << >> THEN << >>
    ELSE LET count == Occurrences(Head(dates), daily)
         IN  (IF exceeds(count, avg_daily, 2)
              THEN << [ date |-> Head(dates),
                        count |-> count,
                        avg |-> avg_daily,
                        severity |-> IF exceeds(count, avg_daily, 3) THEN "HIGH" ELSE "MEDIUM" ] >>
              ELSE << >>)
             \o anomalies_among(Tail(dates), daily, avg_daily)

\* a plausible slip: the average is taken over a week of seven days, not over
\* the days that have a report
detect_anomalies_weekly_average(batch) ==
    LET daily == ReportDates(batch)
        dates == Distinct(daily, {})
    IN  IF dates = << >> THEN Ret(<< >>)
        ELSE Ret(SortDesc(anomalies_among(dates, daily, << Len(daily), 7 >>), "count"))

detect_anomalies(batch) ==
    LET daily == ReportDates(batch)
        dates == Distinct(daily, {})
    IN  IF dates = << >> THEN Ret(<< >>)
        ELSE Ret(SortDesc(anomalies_among(dates, daily, << Len(daily), Len(dates) >>), "count"))

RECURSIVE GCD(_, _)
GCD(a, b) == IF b = 0 THEN a ELSE GCD(b, a % b)

Reduced(q) == << q[1] \div GCD(q[1], q[2]), q[2] \div GCD(q[1], q[2]) >>

\* Averages a whose double product a * 1.2 is below the double nearest to the
\* real product, and averages whose double product a * 0.8 is above it (of the
\* averages num / den with den <= 3 and num <= 40)
ProductBelow120 ==
    { <<3, 1>>, <<6, 1>>, <<9, 1>>, <<12, 1>>, <<18, 1>>, <<23, 1>>, <<24, 1>>, <<31, 1>>,
      <<36, 1>>, <<3, 2>>, <<9, 2>>, <<23, 2>>, <<31, 2>>, <<1, 3>>, <<2, 3>>, <<4, 3>>,
      <<8, 3>>, <<11, 3>>, <<13, 3>>, <<16, 3>>, <<22, 3>>, <<26, 3>>, <<32, 3>>, <<35, 3>> }
ProductAbove080 ==
    { <<3, 1>>, <<6, 1>>, <<7, 1>>, <<12, 1>>, <<14, 1>>, <<17, 1>>, <<19, 1>>, <<23, 1>>,
      <<24, 1>>, <<28, 1>>, <<29, 1>>, <<33, 1>>, <<34, 1>>, <<38, 1>>, <<39, 1>>, <<3, 2>>,
      <<7, 2>>, <<17, 2>>, <<19, 2>>, <<23, 2>>, <<29, 2>>, <<33, 2>>, <<39, 2>>, <<5, 3>>,
      <<7, 3>>, <<10, 3>>, <<11, 3>>, <<14, 3>>, <<17, 3>>, <<20, 3>>, <<22, 3>>, <<25, 3>>,
      <<28, 3>>, <<34, 3>>, <<40, 3>> }

\* second_half_avg > first_half_avg * 1.2, in doubles: the real comparison, or
\* the two sides equal as reals and the product rounded below
above_120(second_half_avg, first_half_avg) ==
    LET left == 10 * second_half_avg[1] * first_half_avg[2]
        right == 12 * first_half_avg[1] * second_half_avg[2]
    IN  left > right \/ (left = right /\ Reduced(first_half_avg) \in ProductBelow120)

\* second_half_avg < first_half_avg * 0.8, in doubles
below_080(second_half_avg, first_half_avg) ==
    LET left == 10 * second_half_avg[1] * first_half_avg[2]
        right == 8 * first_half_avg[1] * second_half_avg[2]
    IN  left < right \/ (left = right /\ Reduced(first_half_avg) \in ProductAbove080)

\* sorted(timeline.items()) for the dates of one category, as the list of counts
RECURSIVE sorted_counts(_, _)
sorted_counts(dates, daily) ==
    IF dates = {} THEN << >>
    ELSE LET first == CHOOSE d \in dates : \A other \in dates \ { d } : DateBefore(d, other)
         IN  << Occurrences(first, daily) >> \o sorted_counts(dates \ { first }, daily)

RECURSIVE OfCategory(_, _)
OfCategory(batch, category_label) ==
    IF batch = << >> THEN << >>
    ELSE (IF HasDate(Head(batch))
             /\ Get(Head(batch), "category_label", "Unknown") = category_label
          THEN << Head(batch) >> ELSE << >>)
         \o OfCategory(Tail(batch), category_label)

\* The trend of one category from its date-sorted daily counts, two or more
trend_of(counts) ==
    LET mid == Len(counts) \div 2
        first_half_avg == << SumOf(SubSeq(counts, 1, mid)), mid >>
        second_half_avg == << SumOf(SubSeq(counts, mid + 1, Len(counts))), Len(counts) - mid >>
    IN  [ trend |-> IF above_120(second_half_avg, first_half_avg) THEN "INCREASING"
                    ELSE IF below_080(second_half_avg, first_half_avg) THEN "DECREASING"
                    ELSE "STABLE",
          current_rate |-> second_half_avg,
          previous_rate |-> first_half_avg ]

\* The daily counts of one category, by date
timeline_of(batch, category_label) ==
    LET daily == ReportDates(OfCategory(batch, category_label))
    IN  sorted_counts(Elements(daily), daily)

analyze_category_trends(batch) ==
    LET categories == { Get(batch[i], "category_label", "Unknown") :
                            i \in { i \in DOMAIN batch : HasDate(batch[i]) } }
    IN  Ret([ c \in { c \in categories : Len(timeline_of(batch, c)) >= 2 } |->
                  trend_of(timeline_of(batch, c)) ])

-----------------------------------------------------------------------------
\* The trend operations called on one list of reports

MaxSpike == 7
MaxOrdinary == 2

\* The days of April 2024 the reports are spread over, and those that may spike
TrendDays == 1..6
SpikeDays == { 1, 2 }

DailyCounts ==
    { [ d \in TrendDays |-> IF d \in SpikeDays THEN spike[d] ELSE ordinary[d] ] :
          spike \in [ SpikeDays -> 0..MaxSpike ],
          ordinary \in [ TrendDays \ SpikeDays -> 0..MaxOrdinary ] }

\* Ten reports on one day and one on each of the three days after it
ExampleSpike == [ d \in TrendDays |-> IF d = 1 THEN 10 ELSE IF d <= 4 THEN 1 ELSE 0 ]

RECURSIVE Repeat(_, _)
Repeat(x, n) == IF n = 0 THEN << >> ELSE << x >> \o Repeat(x, n - 1)

NetworkReport(d) ==
    [ timestamp |-> Formatted(2024, 4, d, 14, 0, 0), category_label |-> "Network" ]

\* The Network reports of the days, by day
RECURSIVE ByDay(_, _)
ByDay(counts, days) ==
    IF days = << >> THEN << >>
    ELSE Repeat(NetworkReport(Head(days)), counts[Head(days)]) \o ByDay(counts, Tail(days))

\* Reports of a second category on two days, one with no category, and three
\* whose timestamp is out of range, None or missing
OtherReports ==
    << [ timestamp |-> Formatted(2024, 4, 1, 9, 30, 0), category_label |-> "Admin" ],
       [ timestamp |-> Formatted(2024, 4, 2, 9, 30, 0), category_label |-> "Admin" ],
       [ timestamp |-> Formatted(2024, 4, 3, 9, 30, 0) ],
       [ timestamp |-> Formatted(2024, 13, 1, 9, 30, 0), category_label |-> "Network" ],
       [ timestamp |-> NoTimestamp, category_label |-> "Network" ],
       [ category_label |-> "Network" ] >>

\* The batches of given daily counts: the Network reports by day, and the other
\* reports followed by the Network reports from the last day to the first
TrendBatches(counts) ==
    { ByDay(counts, << 1, 2, 3, 4, 5, 6 >>),
      OtherReports \o ByDay(counts, << 6, 5, 4, 3, 2, 1 >>) }

InitTrend ==
    /\ text = << >>
    /\ timestamp = NoTimestamp
    /\ category = None
    /\ historical_issues = << >>
    /\ rule_result = NotCalled
    /\ ml_result = EmptyDict
    /\ department_load = NoLoad
    /\ final_result = NotCalled
    /\ \E counts \in DailyCounts \cup { ExampleSpike } : issues \in TrendBatches(counts)
    /\ params = EmptyDict
    /\ result = NotCalled

DetectAnomalies ==
    /\ result = NotCalled
    /\ params' = [ operation |-> "detect_anomalies" ]
    /\ result' = detect_anomalies(issues)
    /\ UNCHANGED << text, timestamp, category, historical_issues,
                    rule_result, ml_result, department_load, final_result, issues >>

AnalyzeCategoryTrends ==
    /\ result = NotCalled
    /\ params' = [ operation |-> "analyze_category_trends" ]
    /\ result' = analyze_category_trends(issues)
    /\ UNCHANGED << text, timestamp, category, historical_issues,
                    rule_result, ml_result, department_load, final_result, issues >>

NextTrend ==
    \/ DetectAnomalies
    \/ AnalyzeCategoryTrends

SpecTrend == InitTrend /\ [][NextTrend]_vars

-----------------------------------------------------------------------------
\* The batch operations called on one list of reports

MaxBatch == 4

\* "wifi down", "wifi", "wifi" seven times, "wifi slow", "printer offline"
TextWifiDown == <<"w","i","f","i"," ","d","o","w","n">>
TextWifi == <<"w","i","f","i">>
TextWifiRepeated == <<"w","i","f","i"," ","w","i","f","i"," ","w","i","f","i"," ","w","i","f","i"," ","w","i","f","i"," ","w","i","f","i"," ","w","i","f","i">>
TextWifiSlow == <<"w","i","f","i"," ","s","l","o","w">>
TextPrinter == <<"p","r","i","n","t","e","r"," ","o","f","f","l","i","n","e">>

ReportPool ==
    { [ cleaned_text |-> TextWifiDown, category_label |-> "Network",
        priority_label |-> "P1", issue_status |-> "New",
        timestamp |-> Formatted(2024, 4, 1, 14, 0, 0) ],
      [ cleaned_text |-> TextWifi, category_label |-> "Network",
        priority_label |-> "P2", issue_status |-> "Resolved",
        timestamp |-> Formatted(2024, 4, 2, 9, 30, 0) ],
      [ cleaned_text |-> TextWifiSlow, priority_label |-> "P1", issue_status |-> "Assigned",
        timestamp |-> Formatted(2024, 4, 1, 9, 30, 0) ],
      [ cleaned_text |-> TextPrinter, category_label |-> "Facilities",
        issue_status |-> "In Progress" ] }

\* The reports of a batch carry their position as issue_id
RECURSIVE WithIds(_, _)
WithIds(reports, i) ==
    IF reports = << >> THEN << >>
    ELSE << DictMerge(Head(reports), [ k \in { "issue_id" } |-> << "ISS", i >> ]) >>
         \o WithIds(Tail(reports), i + 1)

\* Two reports about the printer around three about the wifi
ExampleTwoClusters ==
    LET printer == [ cleaned_text |-> TextPrinter, category_label |-> "Facilities" ]
        wifi == [ cleaned_text |-> TextWifiDown, category_label |-> "Network",
                  priority_label |-> "P1" ]
    IN  << printer, wifi, printer, wifi, wifi >>

\* Two reports that repeat one word between two about the wifi being down
ExampleRepeatedBigram ==
    LET down == [ cleaned_text |-> TextWifiDown, category_label |-> "Network",
                  priority_label |-> "P1" ]
        repeated == [ cleaned_text |-> TextWifiRepeated, category_label |-> "Network",
                      priority_label |-> "P2" ]
    IN  << down, repeated, repeated, down >>

\* Two reports of one text whose ten first words are short:
\* "pc in lab is off and not on at all wifi"
TextShortWords == <<"p","c"," ","i","n"," ","l","a","b"," ","i","s"," ","o","f","f"," ","a","n","d"," ","n","o","t"," ","o","n"," ","a","t"," ","a","l","l"," ","w","i","f","i">>
ExampleShortWords ==
    LET lab == [ cleaned_text |-> TextShortWords, category_label |-> "IT Support",
                 priority_label |-> "P2", issue_status |-> "New" ]
    IN  << lab, lab >>

Thresholds == { 40, CLUSTERING_SIMILARITY_THRESHOLD }
TopNs == { 1, 2, 10 }
MinSupports == { 2, 3 }

ClusterCalls ==
    { [ operation |-> "cluster_issues", vectorizer |-> v, similarity_threshold |-> t ] :
          v \in { "vectorizer" }, t \in Thresholds }
    \cup { [ operation |-> "cluster_issues", vectorizer |-> None,
             similarity_threshold |-> CLUSTERING_SIMILARITY_THRESHOLD ] }

SimilarCalls ==
    { [ operation |-> "find_similar_issues", vectorizer |-> "vectorizer",
        similarity_threshold |-> t, issue_text |-> q, top_n |-> n ] :
          t \in Thresholds, q \in { TextWifi, TextWifiDown }, n \in TopNs }
    \cup { [ operation |-> "find_similar_issues", vectorizer |-> None,
             similarity_threshold |-> CLUSTERING_SIMILARITY_THRESHOLD,
             issue_text |-> TextWifi, top_n |-> 10 ] }

InitBatch ==
    /\ text = << >>
    /\ timestamp = NoTimestamp
    /\ category = None
    /\ historical_issues = << >>
    /\ rule_result = NotCalled
    /\ ml_result = EmptyDict
    /\ department_load = NoLoad
    /\ final_result = NotCalled
    /\ \E reports \in SeqsUpTo(ReportPool, MaxBatch)
                         \cup { ExampleTwoClusters, ExampleRepeatedBigram, ExampleShortWords } :
          issues = WithIds(reports, 1)
    /\ params = EmptyDict
    /\ result = NotCalled

ClusterIssues ==
    /\ result = NotCalled
    /\ \E call \in ClusterCalls :
          /\ params' = call
          /\ result' = cluster_issues(call.vectorizer, call.similarity_threshold, issues)
    /\ UNCHANGED << text, timestamp, category, historical_issues,
                    rule_result, ml_result, department_load, final_result, issues >>

FindSimilarIssues ==
    /\ result = NotCalled
    /\ \E call \in SimilarCalls :
       \E similarities \in { similarities_to(call.issue_text, issues) } :
       \E similar_indices \in argsort_descending(similarities) :
       \E done \in { find_similar_issues(call.vectorizer, call.similarity_threshold,
                                          similarities, issues, call.top_n,
                                          similar_indices) } :
          /\ params' = call
          /\ result' = done.outcome
          /\ issues' = done.all_issues
    /\ UNCHANGED << text, timestamp, category, historical_issues,
                    rule_result, ml_result, department_load, final_result >>

MineFrequentPatterns ==
    /\ result = NotCalled
    /\ \E min_support \in MinSupports :
          /\ params' = [ operation |-> "mine_frequent_patterns", min_support |-> min_support ]
          /\ result' = mine_frequent_patterns(issues, min_support)
    /\ UNCHANGED << text, timestamp, category, historical_issues,
                    rule_result, ml_result, department_load, final_result, issues >>

CalculateDepartmentLoad ==
    /\ result = NotCalled
    /\ params' = [ operation |-> "calculate_department_load" ]
    /\ result' = calculate_department_load(issues)
    /\ UNCHANGED << text, timestamp, category, historical_issues,
                    rule_result, ml_result, department_load, final_result, issues >>

NextBatch ==
    \/ ClusterIssues
    \/ FindSimilarIssues
    \/ MineFrequentPatterns
    \/ CalculateDepartmentLoad
    \/ DetectAnomalies
    \/ AnalyzeCategoryTrends

SpecBatch == InitBatch /\ [][NextBatch]_vars

-----------------------------------------------------------------------------
\* The batch operation named has been called
Called(operation) == result # NotCalled /\ params.operation = operation

-----------------------------------------------------------------------------
\* Claims about the department load

\* C15: whatever department_load is passed, none included, the call returns the same
\* final_priority, decision_source, escalation_triggers and confidence_score; the
\* advisory is non-empty exactly when a load mapping is supplied, the load of the
\* classifier's category (0 when absent from the mapping) is above 90 and
\* final_priority is P3.
C15_LoadOnlyAdvises ==
    Fused =>
        /\ \A load \in Loads :
               LET other == calculate_final_priority(ml_result, rule_result, load)
               IN  /\ Returned(other)
                   /\ other.final_priority = final_result.final_priority
                   /\ other.decision_source = final_result.decision_source
                   /\ other.escalation_triggers = final_result.escalation_triggers
                   /\ other.confidence_score = final_result.confidence_score
        /\ (final_result.department_adjustment # << >>)
             <=> ( /\ department_load # NoLoad
                   /\ Get(department_load, Get(ml_result, "category", "Unknown"), Num(0)).value > 90
                   /\ final_result.final_priority = "P3" )

\* The advisory was given
C15_Witness ==
    /\ Fused
    /\ final_result.department_adjustment # << >>

\* The category is over 90 and the advisory was withheld from a priority above P3
C15_WitnessWithheld ==
    /\ Fused
    /\ department_load # NoLoad
    /\ Get(department_load, Get(ml_result, "category", "Unknown"), Num(0)).value > 90
    /\ final_result.department_adjustment = << >>

-----------------------------------------------------------------------------
\* Claims about the recurrence detector

Detected == Called("detect_recurring_pattern") /\ result.state = "returned"

\* |a & b| / |a | b| >= threshold for the lower-cased token sets of two texts
JaccardAtLeast(a, b, threshold) ==
    LET tokens_a == Elements(Split(Lower(a)))
        tokens_b == Elements(Split(Lower(b)))
    IN  Cardinality(tokens_a \cap tokens_b) * ONE
            >= threshold * Cardinality(tokens_a \cup tokens_b)

\* C16: a historical text counts as similar iff the Jaccard similarity of the
\* lower-cased token sets is >= threshold; is_recurring iff the count is >= 3;
\* recurrence_count is the full count and similar_issues the first 5 similar texts
\* in input order; an empty history gives is_recurring false and count 0.
C16_RecurrenceCount ==
    Detected =>
        LET out == result.value
            similar == { k \in DOMAIN historical_issues :
                             JaccardAtLeast(text, historical_issues[k],
                                            params.similarity_threshold) }
            in_order == Pick(historical_issues, SelectIn(Range(1, Len(historical_issues)), similar))
        IN  /\ out.recurrence_count = Cardinality(similar)
            /\ out.is_recurring <=> (Cardinality(similar) >= 3)
            /\ Field(out.similar_issues, "text") = Prefix(in_order, 5)
            /\ Len(out.similar_issues) <= 5
            /\ historical_issues = << >> => (~out.is_recurring /\ out.recurrence_count = 0)

\* Six similar texts counted, five listed, a dissimilar text passed over
C16_Witness ==
    /\ Detected
    /\ result.value.recurrence_count = 6
    /\ Len(result.value.similar_issues) = 5

\* A text at exactly the threshold was counted and another, below it, was not
C16_WitnessBoundary ==
    /\ Detected
    /\ params.similarity_threshold = 500000
    /\ \E k \in DOMAIN result.value.similar_issues :
          result.value.similar_issues[k].similarity = << 2, 4 >>
    /\ result.value.recurrence_count < Len(historical_issues)

-----------------------------------------------------------------------------
\* Claims about TrendAnalyzer

\* The reports of the batch that have a date, those of one date, those of one category
Dated == { i \in DOMAIN issues : HasDate(issues[i]) }
OnDate(d) == { i \in Dated : DateOf(issues[i].timestamp) = d }
InCategory(c) == { i \in Dated : Get(issues[i], "category_label", "Unknown") = c }
DatesOf(reports) == { DateOf(issues[i].timestamp) : i \in reports }

\* C17: detect_anomalies flags a date iff its count is strictly above 2 times the mean
\* daily count over the dates with a parseable report, with severity HIGH iff strictly
\* above 3 times the mean, MEDIUM otherwise, in non-increasing count order; with no day
\* above twice the mean the result is empty.
C17_Anomalies ==
    Called("detect_anomalies") =>
        LET found == result.value
            dates == DatesOf(Dated)
            flagged == { d \in dates :
                             Cardinality(OnDate(d)) * Cardinality(dates) > 2 * Cardinality(Dated) }
        IN  /\ result.state = "returned"
            /\ Elements(Field(found, "date")) = flagged
            /\ Len(found) = Cardinality(flagged)
            /\ \A k \in DOMAIN found :
                   /\ found[k].count = Cardinality(OnDate(found[k].date))
                   /\ found[k].severity \in { "HIGH", "MEDIUM" }
                   /\ found[k].severity = "HIGH"
                        <=> found[k].count * Cardinality(dates) > 3 * Cardinality(Dated)
            /\ \A k \in 1..(Len(found) - 1) : found[k].count >= found[k + 1].count
            /\ flagged = {} => found = << >>

\* Two days flagged, and the sort has put the later one, of the higher count, first
C17_Witness ==
    /\ Called("detect_anomalies")
    /\ Len(result.value) = 2
    /\ result.value[1].count > result.value[2].count
    /\ DateBefore(result.value[2].date, result.value[1].date)
    /\ DateOf(issues[1].timestamp) = result.value[2].date

\* A day above 3 times the mean is HIGH
C17_WitnessHigh ==
    /\ Called("detect_anomalies")
    /\ \E k \in DOMAIN result.value : result.value[k].severity = "HIGH"

\* A day at exactly twice the mean is not flagged
C17_WitnessTwice ==
    /\ Called("detect_anomalies")
    /\ result.value = << >>
    /\ \E d \in DatesOf(Dated) :
          Cardinality(OnDate(d)) * Cardinality(DatesOf(Dated)) = 2 * Cardinality(Dated)

\* The first floor(n / 2) of a set of dates
FirstHalf(dates) ==
    { d \in dates : Cardinality({ e \in dates : DateBefore(e, d) }) < Cardinality(dates) \div 2 }

\* C18: analyze_category_trends reports a trend for a category iff it has reports on
\* two or more distinct dates; with the dates split at floor(n / 2) the trend is
\* INCREASING iff the second-half average daily count is above 1.2 times the first-half
\* average, DECREASING iff it is below 0.8 times it, STABLE otherwise; reports whose
\* timestamp does not parse are ignored.
C18_CategoryTrends ==
    Called("analyze_category_trends") =>
        /\ result.state = "returned"
        /\ DOMAIN result.value
             = { Get(issues[i], "category_label", "Unknown") : i \in Dated }
               \cap { c \in { "Network", "Admin", "Unknown" } :
                          Cardinality(DatesOf(InCategory(c))) >= 2 }
        /\ \A c \in DOMAIN result.value :
               LET dates == DatesOf(InCategory(c))
                   n1 == Cardinality(FirstHalf(dates))
                   n2 == Cardinality(dates) - n1
                   s1 == Cardinality({ i \in InCategory(c) :
                                          DateOf(issues[i].timestamp) \in FirstHalf(dates) })
                   s2 == Cardinality(InCategory(c)) - s1
               IN  /\ n1 >= 1
                   /\ result.value[c].trend \in { "INCREASING", "DECREASING", "STABLE" }
                   /\ result.value[c].trend = "INCREASING" <=> 10 * s2 * n1 > 12 * s1 * n2
                   /\ result.value[c].trend = "DECREASING" <=> 10 * s2 * n1 < 8 * s1 * n2

-----------------------------------------------------------------------------
\* Claims about IssueClustering

Clustered == Called("cluster_issues") /\ result.state = "returned"

Searched == Called("find_similar_issues") /\ result.state = "returned"

\* similarity(a, b) >= threshold for two reports
Similar(a, b, threshold) ==
    CosAtLeast(cosine_similarity(transform(a.cleaned_text), transform(b.cleaned_text)),
               threshold)

\* C11: cluster_issues on a non-empty batch with no vectorizer set raises an error.
C11_ClusterRaisesWithoutVectorizer ==
    (Called("cluster_issues") /\ params.vectorizer = None /\ issues # << >>)
        => result.state = "raised"

\* C12: any two members of a returned cluster have similarity >= threshold.
C12_PairwiseSimilar ==
    Clustered =>
        \A k \in DOMAIN result.value :
            \A a, b \in Elements(result.value[k].issues) :
                Similar(a, b, params.similarity_threshold)

\* C12, amended: every member of a returned cluster has similarity >= threshold
\* to the cluster's first member, the seed, which is the earliest of them in the batch.
C12_SimilarToSeed ==
    Clustered =>
        \A k \in DOMAIN result.value :
            LET members == result.value[k].issues
            IN  /\ \A m \in 2..Len(members) :
                       Similar(members[1], members[m], params.similarity_threshold)
                /\ \A m \in 2..Len(members) :
                       members[1].issue_id[2] < members[m].issue_id[2]

\* A cluster of three whose second and third members are not similar to each other
C12_Witness ==
    /\ Clustered
    /\ \E k \in DOMAIN result.value :
          LET members == result.value[k].issues
          IN  /\ Len(members) >= 3
              /\ ~Similar(members[2], members[3], params.similarity_threshold)

\* The orderings of a set of positions, as lists
RECURSIVE Orderings(_)
Orderings(positions) ==
    IF positions = {} THEN { << >> }
    ELSE UNION { { << i >> \o rest : rest \in Orderings(positions \ { i }) } : i \in positions }

MembershipSets(clusters) == { Elements(clusters[k].issue_ids) : k \in DOMAIN clusters }

Transitive(batch, threshold) ==
    \A vectors \in { transform_all(CleanedTexts(batch)) } :
        \A a, b, c \in DOMAIN vectors :
            (/\ CosAtLeast(cosine_similarity(vectors[a], vectors[b]), threshold)
             /\ CosAtLeast(cosine_similarity(vectors[b], vectors[c]), threshold))
                => CosAtLeast(cosine_similarity(vectors[a], vectors[c]), threshold)

\* C13: when similarity >= threshold is transitive over the batch, every permutation
\* of the batch gives the same cluster membership sets.
C13_OrderInsensitive ==
    (Clustered /\ params.vectorizer # None
               /\ Transitive(issues, params.similarity_threshold)) =>
        \A batch \in { Pick(issues, p) : p \in Orderings(DOMAIN issues) } :
            MembershipSets(result.value)
            = MembershipSets(cluster_issues(params.vectorizer, params.similarity_threshold,
                                            batch).value)

\* Two clusters, the reports of each apart in the batch, under a transitive relation
C13_Witness ==
    /\ Clustered
    /\ Transitive(issues, params.similarity_threshold)
    /\ Len(result.value) = 2
    /\ \E k \in DOMAIN result.value :
          \E m \in 1..(Len(result.value[k].issues) - 1) :
              result.value[k].issues[m + 1].issue_id[2] > result.value[k].issues[m].issue_id[2] + 1

\* C14: find_similar_issues returns no candidate of similarity >= 0.99 to the query,
\* none below the threshold, at most top_n of them, in non-increasing similarity order.
C14_SimilarResults ==
    Searched =>
        \A query \in { transform(params.issue_text) } :
        LET found == result.value
        IN  /\ Len(found) <= params.top_n
            /\ \A k \in DOMAIN found :
                   \A similarity \in { cosine_similarity(query, transform(found[k].cleaned_text)) } :
                       /\ found[k].similarity_score = similarity
                       /\ ~CosAtLeast(similarity, 99)
                       /\ CosAtLeast(similarity, params.similarity_threshold)
            /\ \A k \in 1..(Len(found) - 1) :
                   CosGeq(found[k].similarity_score, found[k + 1].similarity_score)

\* Two candidates of different similarity returned, one report left out as a
\* self-match and one as too far
C14_Witness ==
    /\ Searched
    /\ Len(result.value) = 2
    /\ ~CosGeq(result.value[2].similarity_score, result.value[1].similarity_score)
    /\ \E i \in DOMAIN issues : Similar([ cleaned_text |-> params.issue_text ], issues[i], 99)
    /\ \E i \in DOMAIN issues :
          ~Similar([ cleaned_text |-> params.issue_text ], issues[i], params.similarity_threshold)

\* The cut at top_n left out a candidate that the threshold would have let in
C14_WitnessCut ==
    /\ Searched
    /\ Len(result.value) = params.top_n
    /\ Cardinality({ i \in DOMAIN issues :
                        /\ Similar([ cleaned_text |-> params.issue_text ], issues[i],
                                   params.similarity_threshold)
                        /\ ~Similar([ cleaned_text |-> params.issue_text ], issues[i], 99) })
       > params.top_n

-----------------------------------------------------------------------------
\* Claims about PatternMiner

Mined == Called("mine_frequent_patterns") /\ result.state = "returned"

\* The words of each report of the batch
RECURSIVE WordsOfEach(_)
WordsOfEach(batch) ==
    IF batch = << >> THEN << >>
    ELSE << Split(Get(Head(batch), "cleaned_text", << >>)) >> \o WordsOfEach(Tail(batch))

\* The places of the batch where a bigram starts, and the bigram there
BigramPlaces(words) ==
    UNION { { << i, k >> : k \in 1..(Len(words[i]) - 1) } : i \in DOMAIN words }
BigramAt(words, place) ==
    words[place[1]][place[2]] \o << " " >> \o words[place[1]][place[2] + 1]

\* C19: mine_frequent_patterns returns exactly the bigrams of adjacent words of one
\* report's cleaned text whose count over the batch is >= min_support, each with that
\* count as frequency and at most 10 contributing issue ids, by non-increasing
\* frequency; an empty batch gives an empty list.
C19_FrequentBigrams ==
    Mined =>
        LET found == result.value
            words == WordsOfEach(issues)
            places == BigramPlaces(words)
            bigrams == [ place \in places |-> BigramAt(words, place) ]
            frequent == { p \in { bigrams[place] : place \in places } :
                              Cardinality({ place \in places : bigrams[place] = p })
                                  >= params.min_support }
        IN  /\ Elements(Field(found, "pattern")) = frequent
            /\ Len(found) = Cardinality(frequent)
            /\ \A k \in DOMAIN found :
                   LET met == { place \in places : bigrams[place] = found[k].pattern }
                   IN  /\ found[k].frequency = Cardinality(met)
                       /\ Len(found[k].issue_ids) = Min(10, Cardinality(met))
                       /\ Elements(found[k].issue_ids)
                            \subseteq { issues[place[1]].issue_id : place \in met }
            /\ \A k \in 1..(Len(found) - 1) : found[k].frequency >= found[k + 1].frequency
            /\ issues = << >> => found = << >>

\* A bigram met more than 10 times lists 10 ids and comes before a rarer one that
\* starts earlier in the batch; a bigram below min_support is left out
C19_Witness ==
    /\ Mined
    /\ Len(result.value) = 2
    /\ result.value[1].frequency > 10
    /\ Len(result.value[1].issue_ids) = 10
    /\ result.value[2].pattern = TextWifiDown
    /\ issues[1].cleaned_text = TextWifiDown

\* A bigram of the batch is below min_support and left out
C19_WitnessLeftOut ==
    /\ Mined
    /\ result.value # << >>
    /\ \E i \in DOMAIN issues :
          /\ issues[i].cleaned_text = TextWifiSlow
          /\ \A k \in DOMAIN result.value : result.value[k].pattern # TextWifiSlow

-----------------------------------------------------------------------------
\* Claims about the reports given to the operations

\* C20: no operation changes the reports it is given: after find_similar_issues,
\* cluster_issues, mine_frequent_patterns, the trend operations and
\* calculate_department_load the list holds the same records as before.
C20_ReportsUnchanged == [][issues' = issues]_vars

\* find_similar_issues returned scored entries and the reports given carry no score
C20_Witness ==
    /\ Searched
    /\ result.value # << >>
    /\ \A k \in DOMAIN result.value : "similarity_score" \in DOMAIN result.value[k]
    /\ \A i \in DOMAIN issues : "similarity_score" \notin DOMAIN issues[i]

-----------------------------------------------------------------------------
\* Claims about the order in which cluster_issues visits the reports

\* The position in the batch of member m of a cluster
PositionOf(cluster, m) == cluster.issue_ids[m][2]

\* The reports that started a cluster, kept or discarded: those that no
\* earlier report absorbed
Seeds(clusters, batch) ==
    { j \in DOMAIN batch :
          \A k \in DOMAIN clusters :
              \A m \in 2..Len(clusters[k].issue_ids) : PositionOf(clusters[k], m) # j }

\* C21: cluster_issues is single-link and one-pass: a report with no earlier seed of
\* similarity >= threshold is a seed itself; any other report is a member of the
\* cluster of the earliest seed it is similar to; and a report not similar to a
\* cluster's seed is not in that cluster, whatever members it is similar to.
C21_SingleLinkOnePass ==
    (Clustered /\ params.vectorizer # None) =>
        LET clusters == result.value
            seeds == Seeds(clusters, issues)
        IN  /\ \A j \in DOMAIN issues :
                   LET earlier == { i \in seeds :
                                       /\ i < j
                                       /\ Similar(issues[i], issues[j], params.similarity_threshold) }
                   IN  IF earlier = {} THEN j \in seeds
                       ELSE \E k \in DOMAIN clusters :
                               /\ \A i \in earlier : PositionOf(clusters[k], 1) <= i
                               /\ PositionOf(clusters[k], 1) \in earlier
                               /\ \E m \in 2..Len(clusters[k].issue_ids) :
                                      PositionOf(clusters[k], m) = j
            /\ \A k \in DOMAIN clusters :
                   \A m \in DOMAIN clusters[k].issue_ids :
                       m # 1 => Similar(issues[PositionOf(clusters[k], 1)],
                                        issues[PositionOf(clusters[k], m)],
                                        params.similarity_threshold)

\* A report similar to a member of a cluster, not to its seed, is left out of it
C21_Witness ==
    /\ Clustered
    /\ \E k \in DOMAIN result.value :
       \E r \in DOMAIN issues :
          /\ \A m \in DOMAIN result.value[k].issue_ids : PositionOf(result.value[k], m) # r
          /\ ~Similar(issues[PositionOf(result.value[k], 1)], issues[r],
                      params.similarity_threshold)
          /\ \E m \in 2..Len(result.value[k].issue_ids) :
                 Similar(issues[PositionOf(result.value[k], m)], issues[r],
                         params.similarity_threshold)

\* A member similar to two seeds is in the cluster of the earlier one
C21_WitnessFirstSeed ==
    /\ Clustered
    /\ \E k \in DOMAIN result.value :
       \E m \in 2..Len(result.value[k].issue_ids) :
       \E s \in Seeds(result.value, issues) :
          /\ PositionOf(result.value[k], 1) < s
          /\ s < PositionOf(result.value[k], m)
          /\ Similar(issues[s], issues[PositionOf(result.value[k], m)],
                     params.similarity_threshold)

\* C22: the list cluster_issues returns is well-formed: every cluster has at least
\* 2 members, cluster_size is the number of its members, no report is listed twice,
\* in one cluster or in two, and the clusters come by non-increasing cluster_size.
C22_WellFormedClusters ==
    Clustered =>
        LET clusters == result.value
            places == UNION { { << k, m >> : m \in DOMAIN clusters[k].issue_ids } :
                              k \in DOMAIN clusters }
        IN  /\ \A k \in DOMAIN clusters :
                   /\ Len(clusters[k].issues) >= 2
                   /\ clusters[k].cluster_size = Len(clusters[k].issues)
                   /\ Len(clusters[k].issue_ids) = Len(clusters[k].issues)
                   /\ \A m \in DOMAIN clusters[k].issues :
                          /\ clusters[k].issues[m].issue_id = clusters[k].issue_ids[m]
                          /\ PositionOf(clusters[k], m) \in DOMAIN issues
                          /\ clusters[k].issues[m] = issues[PositionOf(clusters[k], m)]
            /\ \A p, q \in places :
                   p # q => PositionOf(clusters[p[1]], p[2]) # PositionOf(clusters[q[1]], q[2])
            /\ \A k \in 1..(Len(clusters) - 1) :
                   clusters[k].cluster_size >= clusters[k + 1].cluster_size

\* The larger cluster was found second and comes first, and a report alone is in none
C22_Witness ==
    /\ Clustered
    /\ Len(result.value) = 2
    /\ result.value[1].cluster_id = 2
    /\ result.value[1].cluster_size > result.value[2].cluster_size

\* A report that no other joined is in no cluster
C22_WitnessAlone ==
    /\ Clustered
    /\ result.value # << >>
    /\ \E j \in DOMAIN issues :
          \A k \in DOMAIN result.value :
              \A m \in DOMAIN result.value[k].issue_ids : PositionOf(result.value[k], m) # j

-----------------------------------------------------------------------------
\* Claims about the escalation triggers recorded

TriggerRecurring == "Recurring issue pattern detected"
TriggerHighImpact == "High impact - multiple users affected"
TriggerExamUrgent == "Exam period + urgent keywords"

\* The places of a description in the list of triggers recorded
PlacesOf(description) ==
    { k \in DOMAIN final_result.escalation_triggers :
          final_result.escalation_triggers[k] = description }

\* C23: escalation_triggers holds one description for each trigger whose condition
\* holds and none for the others, recurring before high impact before exam period
\* with urgency; it is empty iff no condition holds; a trigger is recorded whether
\* or not it changes the priority.
C23_TriggersRecorded ==
    Fused =>
        LET recorded == final_result.escalation_triggers
        IN  /\ Cardinality(PlacesOf(TriggerRecurring)) = (IF ArgRecurring THEN 1 ELSE 0)
            /\ Cardinality(PlacesOf(TriggerHighImpact)) = (IF ArgHighImpact THEN 1 ELSE 0)
            /\ Cardinality(PlacesOf(TriggerExamUrgent)) = (IF ArgExamUrgent THEN 1 ELSE 0)
            /\ \A k \in DOMAIN recorded :
                   recorded[k] \in { TriggerRecurring, TriggerHighImpact, TriggerExamUrgent }
            /\ \A a \in PlacesOf(TriggerRecurring), b \in PlacesOf(TriggerHighImpact) : a < b
            /\ \A a \in PlacesOf(TriggerHighImpact), b \in PlacesOf(TriggerExamUrgent) : a < b
            /\ \A a \in PlacesOf(TriggerRecurring), b \in PlacesOf(TriggerExamUrgent) : a < b
            /\ (recorded = << >>) <=> ~AnyTrigger

\* All three triggers recorded, in order, for a report whose base priority is P1
\* already, so that none of them changes the priority
C23_Witness ==
    /\ Fused
    /\ PolicyBase = 3
    /\ final_result.final_priority = "P1"
    /\ final_result.escalation_triggers
         = << TriggerRecurring, TriggerHighImpact, TriggerExamUrgent >>

\* The recurring trigger alone, recorded without changing a base priority of P2
C23_WitnessOne ==
    /\ Fused
    /\ PolicyBase = 2
    /\ final_result.final_priority = "P2"
    /\ final_result.escalation_triggers = << TriggerRecurring >>

-----------------------------------------------------------------------------
\* Claims about the analysis of a cluster

\* The words of a cluster's concatenated cleaned text
ClusterWords(cluster) == Split(Join(CleanedTexts(cluster.issues)))

\* C24: the root-cause hypothesis of a cluster is made of the 5 most frequent words
\* of length > 3 of the cluster's concatenated cleaned text, all of them when there
\* are fewer than 5, whatever the other words of the cluster are.
C24_RootCauseHypothesis ==
    Clustered =>
        \A k \in DOMAIN result.value :
        \A words \in { ClusterWords(result.value[k]) } :
        \A chosen \in { Split(result.value[k].root_cause_hypothesis) } :
            LET long == { words[i] : i \in { j \in DOMAIN words : Len(words[j]) > 3 } }
            IN  /\ Len(chosen) = Min(5, Cardinality(long))
                /\ Cardinality(Elements(chosen)) = Len(chosen)
                /\ Elements(chosen) \subseteq long
                /\ \A w \in Elements(chosen), v \in long \ Elements(chosen) :
                       Occurrences(w, words) >= Occurrences(v, words)


-----------------------------------------------------------------------------
\* Claims about the impact assessment

\* some keyword of the tier occurs in the lower-cased text
TierMatches(tier, text_lower) == \E k \in DOMAIN tier : Contains(tier[k], text_lower)

\* the prior of the report's category, 0.5 for a category without one
CategoryPrior ==
    CASE category = "Network" -> 800000
      [] category = "Facilities" -> 600000
      [] category = "Academic" -> 500000
      [] category = "IT Support" -> 400000
      [] category = "Admin" -> 300000
      [] OTHER -> 500000

ImpactIs(level, score, band) ==
    /\ rule_result.impact_analysis.impact_level = level
    /\ rule_result.impact_analysis.impact_score = score
    /\ rule_result.impact_analysis.estimated_users_affected = band

\* C25: the breadth tiers are tested in the order high, medium, low. A high match
\* gives HIGH, min(base + 0.4, 1.0), "50-500+" whatever else matches; else a medium
\* match gives MEDIUM, base, "10-50"; else a low match gives LOW,
\* max(base - 0.3, 0.1), "1-5"; else MEDIUM, base, "Unknown".
C25_ImpactTiers ==
    Returned(rule_result) =>
        \E lowered \in { Lower(text) } :
            IF TierMatches(high, lowered)
            THEN ImpactIs("HIGH", Min(CategoryPrior + 400000, ONE), "50-500+")
            ELSE IF TierMatches(medium, lowered)
            THEN ImpactIs("MEDIUM", CategoryPrior, "10-50")
            ELSE IF TierMatches(low, lowered)
            THEN ImpactIs("LOW", Max(CategoryPrior - 300000, 100000), "1-5")
            ELSE ImpactIs("MEDIUM", CategoryPrior, "Unknown")

\* "my entire" matches a high and a low keyword and is HIGH, capped at 1.0
C25_Witness ==
    /\ Returned(rule_result)
    /\ TierMatches(high, Lower(text))
    /\ TierMatches(low, Lower(text))
    /\ category = "Network"
    /\ ImpactIs("HIGH", ONE, "50-500+")

\* a low match alone, floored at 0.1
C25_WitnessLow ==
    /\ Returned(rule_result)
    /\ category = "Admin"
    /\ ~TierMatches(high, Lower(text))
    /\ ~TierMatches(medium, Lower(text))
    /\ TierMatches(low, Lower(text))
    /\ ImpactIs("LOW", 100000, "1-5")

\* no match at all, category without a prior
C25_WitnessUnknown ==
    /\ Returned(rule_result)
    /\ category = None
    /\ ~TierMatches(high, Lower(text))
    /\ ~TierMatches(medium, Lower(text))
    /\ ~TierMatches(low, Lower(text))
    /\ ImpactIs("MEDIUM", 500000, "Unknown")

-----------------------------------------------------------------------------
\* The time rules called on one timestamp

\* 2024-04-13 is a Saturday, 2024-04-14 a Sunday, 2024-04-15 a Monday,
\* 2024-06-13 a Thursday, 2024-06-14 a Friday, 2024-06-15 a Saturday
HourStamps ==
    { Formatted(2024, mo, d, h, mi, 0) : mo \in { 4, 6 }, d \in { 13, 14, 15 }, h \in 0..23, mi \in { 0, 59 } }

InitTime ==
    /\ text = << >>
    /\ timestamp \in HourStamps \cup { NoTimestamp, Formatted(2024, 13, 1, 14, 0, 0) }
    /\ category = None
    /\ historical_issues = << >>
    /\ rule_result = NotCalled
    /\ ml_result = EmptyDict
    /\ department_load = NoLoad
    /\ final_result = NotCalled
    /\ issues = << >>
    /\ params = EmptyDict
    /\ result = NotCalled

\* analyze_temporal_context(timestamp); now is what datetime.now() would return
AnalyzeTemporalContext ==
    /\ result = NotCalled
    /\ \E now \in (IF Parses(timestamp) THEN { timestamp } ELSE HourStamps) :
          /\ params' = [ operation |-> "analyze_temporal_context", timestamp |-> timestamp, now |-> now ]
          /\ result' = Ret(analyze_temporal_context(timestamp, now))
    /\ UNCHANGED << text, timestamp, category, historical_issues, rule_result,
                    ml_result, department_load, final_result, issues >>

NextTime == AnalyzeTemporalContext

SpecTime == InitTime /\ [][NextTime]_vars

-----------------------------------------------------------------------------
\* Claims about the time rules

\* the moment the rules look at: the timestamp when it parses, else the clock
Moment == IF Parses(params.timestamp) THEN params.timestamp ELSE params.now

\* the hours of each bucket and its multiplier in tenths
Buckets ==
    { [ name |-> "morning", hours |-> 8..11, multiplier |-> 8 ],
      [ name |-> "afternoon", hours |-> 12..16, multiplier |-> 10 ],
      [ name |-> "evening", hours |-> 17..20, multiplier |-> 9 ],
      [ name |-> "night", hours |-> (21..23) \cup (0..7), multiplier |-> 7 ] }

BucketOf(hour) == CHOOSE b \in Buckets : hour \in b.hours

ExamMonth == Moment.month \in { 4, 5, 11, 12 }

SaturdayOrSunday ==
    << Moment.year, Moment.month, Moment.day >> \in { << 2024, 4, 13 >>, << 2024, 4, 14 >>, << 2024, 6, 15 >> }

\* (0.5 + 0.3 if exam month) * multiplier * (0.85 at the weekend else 1.0), in millionths
ClaimedTimeScore ==
    ((500000 + (IF ExamMonth THEN 300000 ELSE 0)) * BucketOf(Moment.hour).multiplier
     * (IF SaturdayOrSunday THEN 85 ELSE 100)) \div 1000

\* C26: every hour 0-23 lies in exactly one bucket (morning 8-11, afternoon 12-16,
\* evening 17-20, night otherwise); the result names that bucket, is_peak_hour holds
\* iff it is afternoon or evening, and time_score is
\* min((0.5 + 0.3 if exam month) * multiplier * (0.85 at the weekend else 1.0), 1.0).
C26_TimeBuckets ==
    Called("analyze_temporal_context") =>
        /\ Cardinality({ b \in Buckets : Moment.hour \in b.hours }) = 1
        /\ result.value.time_of_day = BucketOf(Moment.hour).name
        /\ result.value.is_peak_hour = (BucketOf(Moment.hour).name \in { "afternoon", "evening" })
        /\ result.value.time_score = Min(ClaimedTimeScore, ONE)

\* 12:00 on a Saturday in April: afternoon, peak, 0.8 * 1.0 * 0.85
C26_Witness ==
    /\ Called("analyze_temporal_context")
    /\ Moment.hour = 12 /\ Moment.minute = 0
    /\ ExamMonth /\ SaturdayOrSunday
    /\ result.value.time_of_day = "afternoon"
    /\ result.value.is_peak_hour
    /\ result.value.time_score = 680000

\* 07:59 on a Thursday in June: night, not peak, 0.5 * 0.7
C26_WitnessNight ==
    /\ Called("analyze_temporal_context")
    /\ Moment.hour = 7 /\ Moment.minute = 59
    /\ ~ExamMonth /\ ~SaturdayOrSunday
    /\ result.value.time_of_day = "night"
    /\ ~result.value.is_peak_hour
    /\ result.value.time_score = 350000

\* no timestamp given: the clock's hour decides
C26_WitnessClock ==
    /\ Called("analyze_temporal_context")
    /\ params.timestamp = NoTimestamp
    /\ Moment.hour = 8
    /\ result.value.time_of_day = "morning"

-----------------------------------------------------------------------------
\* The department load computed from a batch and handed to the fusion engine

\* bound
MaxOpen == 2

\* Eleven open reports for Admin, whose capacity is 12
ExampleAdminBacklog ==
    [ i \in 1..11 |-> [ cleaned_text |-> TextPrinter, category_label |-> "Admin",
                        priority_label |-> "P3", issue_status |-> "New" ] ]

InitLoad ==
    /\ text = << >>
    /\ timestamp = NoTimestamp
    /\ category = None
    /\ historical_issues = << >>
    /\ rule_result = NotCalled
    /\ ml_result = EmptyDict
    /\ department_load = NoLoad
    /\ final_result = NotCalled
    /\ \E reports \in SeqsUpTo(ReportPool, MaxOpen) \cup { ExampleAdminBacklog } :
          issues = WithIds(reports, 1)
    /\ params = EmptyDict
    /\ result = NotCalled

\* calculate_final_priority(ml, rule, department_load=calculate_department_load(issues))
CalculateFinalPriorityUnderLoad ==
    /\ Called("calculate_department_load")
    /\ final_result = NotCalled
    /\ \E ml \in MlResults, rule \in RuleResults :
          /\ ml_result' = ml
          /\ rule_result' = rule
          /\ department_load' = result.value
          /\ final_result' = calculate_final_priority(ml, rule, result.value)
    /\ UNCHANGED << text, timestamp, category, historical_issues, issues, params, result >>

NextLoad ==
    \/ CalculateDepartmentLoad
    \/ CalculateFinalPriorityUnderLoad

SpecLoad == InitLoad /\ [][NextLoad]_vars

-----------------------------------------------------------------------------
\* Claims about the load mapping as an argument of the fusion engine

LoadPassed == Called("calculate_department_load") /\ final_result # NotCalled

ArgCategory == Get(ml_result, "category", "Unknown")

\* the load percentage of the classifier's category is above 90
CategoryAbove90 ==
    /\ ArgCategory \in DOMAIN department_load
    /\ department_load[ArgCategory].load_percentage[1] > 90 * department_load[ArgCategory].load_percentage[2]

\* C27: the mapping calculate_department_load returns is accepted as
\* department_load by calculate_final_priority: the call returns, and its advisory is
\* non-empty exactly when the load percentage of the classifier's category is above
\* 90 and the final priority is P3.
C27_LoadMappingAccepted ==
    LoadPassed =>
        /\ Returned(final_result)
        /\ (final_result.department_adjustment # << >>)
             <=> (CategoryAbove90 /\ final_result.final_priority = "P3")

-----------------------------------------------------------------------------
\* Claims about the reports cluster_issues leaves out

\* the positions of the reports that are in some returned cluster
Covered(clusters) ==
    UNION { { PositionOf(clusters[k], m) : m \in DOMAIN clusters[k].issue_ids } : k \in DOMAIN clusters }

\* C28: of two distinct reports with similarity >= threshold at least one is a member
\* of some returned cluster.
C28_PairCoverage ==
    (Clustered /\ params.vectorizer # None) =>
        \E covered \in { Covered(result.value) } :
            \A a \in DOMAIN issues : \A b \in (a + 1)..Len(issues) :
                (a \notin covered /\ b \notin covered)
                    => ~Similar(issues[a], issues[b], params.similarity_threshold)

\* two similar reports of which one is in a cluster and the other in none
C28_Witness ==
    /\ Clustered /\ params.vectorizer # None
    /\ \E a, b \in DOMAIN issues :
          /\ a # b
          /\ Similar(issues[a], issues[b], params.similarity_threshold)
          /\ a \in Covered(result.value)
          /\ b \notin Covered(result.value)

\* two similar reports that are members of different clusters
C28_WitnessApart ==
    /\ Clustered /\ params.vectorizer # None
    /\ \E a, b \in DOMAIN issues :
          /\ a # b
          /\ Similar(issues[a], issues[b], params.similarity_threshold)
          /\ \E k, l \in DOMAIN result.value :
                /\ k # l
                /\ \E m \in DOMAIN result.value[k].issue_ids : PositionOf(result.value[k], m) = a
                /\ \E m \in DOMAIN result.value[l].issue_ids : PositionOf(result.value[l], m) = b

-----------------------------------------------------------------------------
\* Claims about the candidates find_similar_issues examines

\* the candidates whose similarity to the query is at least pct / 100
CandidatesAtLeast(pct) ==
    UNION { { i \in DOMAIN issues :
                  CosAtLeast(cosine_similarity(query, transform(issues[i].cleaned_text)), pct) } :
            query \in { transform(params.issue_text) } }

\* the number of self-matches among the top_n candidates of highest similarity
SelfMatchesInTop == Min(params.top_n, Cardinality(CandidatesAtLeast(99)))

\* C29: only the top_n candidates of highest similarity are examined, the
\* self-matches (similarity >= 0.99) among them included: the number of results is at
\* most top_n minus the number of self-matches among those top_n, however many
\* further candidates have a similarity in [threshold, 0.99).
C29_OnlyTopExamined ==
    Searched => Len(result.value) <= params.top_n - SelfMatchesInTop

\* a self-match took a place among the top_n, and a candidate within
\* [threshold, 0.99) was left out for it
C29_Witness ==
    /\ Searched
    /\ SelfMatchesInTop = 1
    /\ params.top_n = 2
    /\ Len(result.value) = 1
    /\ Cardinality(CandidatesAtLeast(params.similarity_threshold) \ CandidatesAtLeast(99)) >= 2

\* the self-matches fill the top_n and nothing is returned
C29_WitnessNone ==
    /\ Searched
    /\ SelfMatchesInTop = params.top_n
    /\ result.value = << >>
    /\ CandidatesAtLeast(params.similarity_threshold) \ CandidatesAtLeast(99) # {}

-----------------------------------------------------------------------------
\* Claims about the number of dates an anomaly needs

C30_WitnessHigh ==
    /\ Called("detect_anomalies")
    /\ Cardinality(DatesOf(Dated)) = 4
    /\ Len(result.value) = 1
    /\ result.value[1].severity = "HIGH"

\* two dates flagged of five
C30_WitnessTwo ==
    /\ Called("detect_anomalies")
    /\ Cardinality(DatesOf(Dated)) = 5
    /\ Len(result.value) = 2
====
